---------------------------- MODULE Spec2Model ----------------------------
(***************************************************************************)
(* Solar O&M analytics engine: validator, baseline calculator, anomaly     *)
(* detector and pipeline orchestrator (src/src/logic/analytics).           *)
(*                                                                         *)
(* Numbers.  The code computes in floating point; the model computes the   *)
(* same expressions exactly, over integers:                                *)
(*   - a reading's numeric fields are integers (grid_frequency_hz is kept  *)
(*     in tenths of a hertz, so 49.5 Hz is 495);                           *)
(*   - a Baseline carries a positive "scale": its mean, quartiles, iqr,    *)
(*     min_val and max_val are integers in units of 1/scale, and           *)
(*     std_dev_sq is the square of std_dev in units of 1/scale^2 (the      *)
(*     square keeps the population standard deviation exact);              *)
(*   - a configurable factor (z-score threshold, IQR multiplier) and a     *)
(*     percentage are fractions [num, den] with den > 0.                   *)
(* Floating-point rounding is not modelled.                                *)
(*                                                                         *)
(* Dates.  A date string is [day, pad]: day is the calendar day it parses  *)
(* to (strptime), pad says whether it is spelled zero-padded, the way      *)
(* strftime("%Y-%m-%d") spells it.  strptime also accepts the unpadded     *)
(* spelling ("2025-1-5"), so two different strings can name the same day.  *)
(*                                                                         *)
(* Optional values: None is the empty set, a present value v is {v}.       *)
(***************************************************************************)
EXTENDS Integers, Sequences, FiniteSets, TLC

VARIABLES
    pc,          \* position of the operation under analysis
    args,        \* DataPipeline.execute: its arguments and the two sources
    result,      \* DataPipeline.execute: the PipelineResult being built
    plant_idx,   \* DataPipeline.execute: position of "for plant_id in result.plants"
    det_in,      \* AnomalyDetector.detect: detector configuration, readings, baseline
    det_i,       \* AnomalyDetector.detect: readings consumed by the loop so far
    anomalies,   \* AnomalyDetector.detect: the anomalies list being built
    val_in,      \* DataValidator: the readings passed to the method under analysis
    val_out,     \* DataValidator: what the method returned
    sev_in,      \* AnomalyDetector.classify_severity: deviation_pct
    sev_out,     \* AnomalyDetector.classify_severity: the returned tier
    base_in,     \* BaselineCalculator: the arguments of the method under analysis
    base_out,    \* BaselineCalculator: what the method returned, or that it raised
    pattern_counter,  \* PatternDetector: self.pattern_counter
    now,         \* PatternDetector: the second datetime.now() reads
    pat_in,      \* PatternDetector: the arguments of the latest call
    pat_out,     \* PatternDetector: what the latest call returned
    pat_ids,     \* PatternDetector: every id _generate_pattern_id has returned
    ins_in,      \* InsightsEngine: the engine's anomalies and patterns
    ins_out      \* InsightsEngine: what generate_insights returned, or that it raised

vars == <<pc, args, result, plant_idx, det_in, det_i, anomalies,
          val_in, val_out, sev_in, sev_out, base_in, base_out,
          pattern_counter, now, pat_in, pat_out, pat_ids, ins_in, ins_out>>

pipeVars == <<args, result, plant_idx>>
detVars == <<det_in, det_i, anomalies>>
valVars == <<val_in, val_out>>
sevVars == <<sev_in, sev_out>>
baseVars == <<base_in, base_out>>
patVars == <<pattern_counter, now, pat_in, pat_out, pat_ids>>
insVars == <<ins_in, ins_out>>

\* The value of a variable that the specification at hand does not use.
Idle == [idle |-> TRUE]

\* The components a specification does not exercise stay as constructed.
IdleBaseline == base_in = Idle /\ base_out = Idle
IdlePattern ==
    /\ pattern_counter = 0 /\ now = 0
    /\ pat_in = Idle /\ pat_out = Idle /\ pat_ids = <<>>
IdleInsights == ins_in = Idle /\ ins_out = Idle

None == {}
Some(v) == {v}

Abs(x) == IF x < 0 THEN -x ELSE x

Range(s) == {s[i] : i \in 1..Len(s)}

RECURSIVE SumSeq(_)
SumSeq(s) == IF s = <<>> THEN 0 ELSE Head(s) + SumSeq(Tail(s))

(***************************************************************************)
(* Bounds of the model                                                     *)
(***************************************************************************)
\* The current day ("datetime.now()"), as a day number.
Today == 20
\* Longest list handed to a DataValidator method in SpecValidator.
MaxLen == 4
\* Longest list of readings handed to detect in SpecDetector.
MaxDetLen == 2
\* Longest list of anomalies and of patterns handed to an InsightsEngine.
MaxInsLen == 2
\* Ids one PatternDetector generates before SpecPattern stops calling it.
MaxIds == 2
\* Latest second the clock shows in SpecPattern.
MaxNow == 1
\* Longest list handed to calculate and update_rolling in SpecBaseline.
BaseMaxLen == 14
\* Longest list handed to fill_date_gaps in SpecFill.
MaxFill == 3
\* Longest list handed to validate_batch in SpecValidate.
MaxBatch == 3
\* classify_severity is explored on deviations of -DevMax/100 .. DevMax/100 percent.
DevMax == 5200

(***************************************************************************)
(* DailyReading (data_models/reading.py)                                   *)
(***************************************************************************)
Date(day, pad) == [day |-> day, pad |-> pad]

\* datetime.strptime(s, "%Y-%m-%d"): both spellings parse to the day.
strptime(s) == s.day

\* Whether strptime accepts the string: a day of 0 ("2025-01-00") stands for
\* the strings it rejects with ValueError.  A DailyReading is constructed
\* with a date that parses; the model class does not validate assignment, so
\* a later "reading.date = ..." can leave any string.
Parses(s) == s.day >= 1

\* d.strftime("%Y-%m-%d"): always the zero-padded spelling.
strftime(day) == Date(day, TRUE)

DailyReading(plant_id, date, power, eff, temp, irr, status, freq) ==
    [plant_id |-> plant_id, date |-> date, power_output_kwh |-> power,
     efficiency_pct |-> eff, temperature_c |-> temp, irradiance_w_m2 |-> irr,
     inverter_status |-> status, grid_frequency_hz |-> freq]

\* The field constraints and validators of the pydantic model: what every
\* DailyReading object satisfies.
DailyReadingOk(r) ==
    /\ strptime(r.date) <= Today
    /\ r.power_output_kwh >= 0
    /\ r.efficiency_pct >= 0 /\ r.efficiency_pct <= 100
    /\ r.irradiance_w_m2 >= 0
    /\ r.grid_frequency_hz >= 450 /\ r.grid_frequency_hz <= 550

(***************************************************************************)
(* DataValidator (analytics/data_validator.py)                             *)
(***************************************************************************)
VALID_INVERTER_STATUSES == {"active", "inactive", "fault", "standby", "maintenance"}

\* str.lower() on the statuses the model uses.
Lower(s) == CASE s = "Active" -> "active"
              [] s = "OK" -> "ok"
              [] s = "Warning" -> "warning"
              [] OTHER -> s

\* str.strip() on the plant ids the model uses.
Strip(s) == IF s = " " THEN "" ELSE s

\* validate() with "if errors:" looking at the first check only: a reading
\* is rejected with the first violated rule as the whole message.
ValidateErrorsFirstOnly(reading) ==
    IF reading.plant_id = "" \/ Strip(reading.plant_id) = "" THEN <<"plant_id">>
    ELSE IF ~Parses(reading.date) THEN <<"date_format">>
    ELSE IF strptime(reading.date) > Today THEN <<"date">>
    ELSE IF reading.power_output_kwh < 0 THEN <<"power_output_kwh">>
    ELSE IF reading.efficiency_pct < 0 \/ reading.efficiency_pct > 100
    THEN <<"efficiency_pct">>
    ELSE IF reading.temperature_c < -50 \/ reading.temperature_c > 80
    THEN <<"temperature_c">>
    ELSE IF reading.irradiance_w_m2 < 0 \/ reading.irradiance_w_m2 > 1500
    THEN <<"irradiance_w_m2">>
    ELSE IF Lower(reading.inverter_status) \notin VALID_INVERTER_STATUSES
    THEN <<"inverter_status">>
    ELSE IF ~(495 <= reading.grid_frequency_hz /\ reading.grid_frequency_hz <= 505)
    THEN <<"grid_frequency_hz">>
    ELSE <<>>

\* The errors list validate() builds, one entry per violated rule, in the
\* order of the checks.  The date check appends "invalid date format" when
\* strptime raises ValueError and "date cannot be in the future" otherwise.
ValidateErrors(reading) ==
    (IF reading.plant_id = "" \/ Strip(reading.plant_id) = ""
     THEN <<"plant_id">> ELSE <<>>)
    \o (IF ~Parses(reading.date) THEN <<"date_format">>
        ELSE IF strptime(reading.date) > Today THEN <<"date">> ELSE <<>>)
    \o (IF reading.power_output_kwh < 0 THEN <<"power_output_kwh">> ELSE <<>>)
    \o (IF reading.efficiency_pct < 0 \/ reading.efficiency_pct > 100
        THEN <<"efficiency_pct">> ELSE <<>>)
    \o (IF reading.temperature_c < -50 \/ reading.temperature_c > 80
        THEN <<"temperature_c">> ELSE <<>>)
    \o (IF reading.irradiance_w_m2 < 0 \/ reading.irradiance_w_m2 > 1500
        THEN <<"irradiance_w_m2">> ELSE <<>>)
    \o (IF Lower(reading.inverter_status) \notin VALID_INVERTER_STATUSES
        THEN <<"inverter_status">> ELSE <<>>)
    \o (IF ~(495 <= reading.grid_frequency_hz /\ reading.grid_frequency_hz <= 505)
        THEN <<"grid_frequency_hz">> ELSE <<>>)

\* validate(reading): TRUE when it returns True, FALSE when it raises
\* ValidationError.
validate(reading) == ValidateErrors(reading) = <<>>

\* One call of validate(reading): it returns True, or raises ValidationError
\* with "; ".join(errors) as its message.
ValidateOutcome(reading) ==
    LET errors == ValidateErrors(reading)
    IN  IF errors # <<>>
        THEN [raises |-> "ValidationError", value |-> FALSE, message |-> errors]
        ELSE [raises |-> "", value |-> TRUE, message |-> <<>>]

\* validate_batch that gives up at the first reading validate rejects.
ValidateBatchUntilInvalid(readings) ==
    LET bad == {i \in 1..Len(readings) : ~validate(readings[i])}
        n == IF bad = {} THEN Len(readings)
             ELSE (CHOOSE i \in bad : \A j \in bad : i <= j) - 1
    IN  [i \in 1..n |-> [is_valid |-> TRUE, errors |-> <<>>]]

\* Whether validate_batch(readings) raises: its loop catches ValidationError
\* and nothing else.
ValidateBatchRaises(readings) ==
    \E i \in 1..Len(readings) :
        ValidateOutcome(readings[i]).raises \notin {"", "ValidationError"}

\* validate_batch(readings): one ValidationResult per reading.
validate_batch(readings) ==
    [i \in 1..Len(readings) |->
        [is_valid |-> validate(readings[i]), errors |-> ValidateErrors(readings[i])]]

ReadingKey(reading) == <<reading.plant_id, reading.date>>

\* A dedup loop that forgets the keys it has seen whenever it drops a reading.
RECURSIVE RemoveDuplicatesLoopForgetful(_, _, _)
RemoveDuplicatesLoopForgetful(readings, seen, unique) ==
    IF readings = <<>> THEN unique
    ELSE LET reading == Head(readings)
             key == ReadingKey(reading)
         IN  IF key \notin seen
             THEN RemoveDuplicatesLoopForgetful(Tail(readings), seen \cup {key},
                                                Append(unique, reading))
             ELSE RemoveDuplicatesLoopForgetful(Tail(readings), {}, unique)

\* The loop of remove_duplicates over what is left of the input.
RECURSIVE RemoveDuplicatesLoop(_, _, _)
RemoveDuplicatesLoop(readings, seen, unique) ==
    IF readings = <<>> THEN unique
    ELSE LET reading == Head(readings)
             key == ReadingKey(reading)
         IN  IF key \notin seen
             THEN RemoveDuplicatesLoop(Tail(readings), seen \cup {key},
                                       Append(unique, reading))
             ELSE RemoveDuplicatesLoop(Tail(readings), seen, unique)

\* A dedup that lets a later reading replace the earlier one with its key.
RemoveDuplicatesKeepLast(readings) ==
    LET n == Len(readings)
        keep == {i \in 1..n : \A j \in (i+1)..n :
                                 ReadingKey(readings[j]) # ReadingKey(readings[i])}
        F[i \in 0..n] == IF i = 0 THEN <<>>
                         ELSE IF i \in keep THEN Append(F[i-1], readings[i])
                         ELSE F[i-1]
    IN  F[n]

remove_duplicates(readings) == RemoveDuplicatesLoop(readings, {}, <<>>)


\* Where a date string stands in Python's string order, for the days of one
\* month: "2025-01-05" < "2025-01-10" < "2025-01-5" < "2025-01-50".  Only a
\* day below 10 has an unpadded spelling.
StrKey(date) == IF date.pad THEN 100 * (date.day \div 10) + (date.day % 10) + 1
                ELSE 100 * date.day

RECURSIVE InsertByDate(_, _)
InsertByDate(sorted, reading) ==
    IF sorted = <<>> THEN <<reading>>
    ELSE IF StrKey(Head(sorted).date) <= StrKey(reading.date)
         THEN <<Head(sorted)>> \o InsertByDate(Tail(sorted), reading)
         ELSE <<reading>> \o sorted

\* sorted(readings, key=lambda r: r.date): a stable sort on the date string.
RECURSIVE SortedByDate(_)
SortedByDate(readings) ==
    IF readings = <<>> THEN <<>>
    ELSE InsertByDate(SortedByDate(SubSeq(readings, 1, Len(readings) - 1)),
                      readings[Len(readings)])

\* before + ratio * (after - before) with ratio = k / total.  The model's
\* inputs are drawn so that the quotient is an integer.
Lerp(before, after, k, total) == before + (k * (after - before)) \div total

\* The scan of _interpolate_reading: <<before, after>>, each None or Some.
RECURSIVE InterpolateScan(_, _, _)
InterpolateScan(readings, target_date, before) ==
    IF readings = <<>> THEN <<before, None>>
    ELSE LET reading == Head(readings)
             reading_date == strptime(reading.date)
         IN  IF reading_date < target_date
             THEN InterpolateScan(Tail(readings), target_date, Some(reading))
             ELSE IF reading_date > target_date
             THEN <<before, Some(reading)>>
             ELSE InterpolateScan(Tail(readings), target_date, before)

\* _interpolate_reading(readings, target_date): None or Some(reading).
InterpolateReading(readings, target_date) ==
    LET found == InterpolateScan(readings, target_date, None)
    IN  IF found[1] # None /\ found[2] # None
        THEN LET before == CHOOSE r \in found[1] : TRUE
                 after == CHOOSE r \in found[2] : TRUE
                 total_days == strptime(after.date) - strptime(before.date)
                 k == target_date - strptime(before.date)
             IN  IF total_days > 0
                 THEN Some(DailyReading(
                        before.plant_id, strftime(target_date),
                        Lerp(before.power_output_kwh, after.power_output_kwh, k, total_days),
                        Lerp(before.efficiency_pct, after.efficiency_pct, k, total_days),
                        Lerp(before.temperature_c, after.temperature_c, k, total_days),
                        Lerp(before.irradiance_w_m2, after.irradiance_w_m2, k, total_days),
                        before.inverter_status, before.grid_frequency_hz))
                 ELSE None
        ELSE None

\* readings_by_date = {r.date: r for r in sorted_readings}: the last reading
\* with a date string is the one the dict keeps.
ReadingsByDate(sorted_readings, date_str) ==
    LET at == {i \in 1..Len(sorted_readings) : sorted_readings[i].date = date_str}
    IN  IF at = {} THEN None
        ELSE Some(sorted_readings[CHOOSE i \in at : \A j \in at : j <= i])

\* The while loop of fill_date_gaps, from current_date to end_date.
RECURSIVE FillLoop(_, _, _, _, _)
FillLoop(sorted_readings, method, current_date, end_date, filled) ==
    IF current_date > end_date THEN filled
    ELSE LET date_str == strftime(current_date)
             have == ReadingsByDate(sorted_readings, date_str)
             interpolated == InterpolateReading(sorted_readings, current_date)
             last_reading == filled[Len(filled)]
             next ==
                 IF have # None THEN Append(filled, CHOOSE r \in have : TRUE)
                 ELSE IF method = "interpolate"
                 THEN IF interpolated # None
                      THEN Append(filled, CHOOSE r \in interpolated : TRUE)
                      ELSE filled
                 ELSE IF method = "forward_fill" /\ filled # <<>>
                 THEN Append(filled, [last_reading EXCEPT !.date = date_str])
                 ELSE filled
         IN  FillLoop(sorted_readings, method, current_date + 1, end_date, next)

fill_date_gaps(readings, method) ==
    IF Len(readings) < 2 THEN readings
    ELSE LET sorted_readings == SortedByDate(readings)
             start_date == strptime(sorted_readings[1].date)
             end_date == strptime(sorted_readings[Len(sorted_readings)].date)
         IN  FillLoop(sorted_readings, method, start_date, end_date, <<>>)

(***************************************************************************)
(* Constants (utils/constants.py)                                          *)
(***************************************************************************)
ZSCORE_THRESHOLD == [num |-> 2, den |-> 1]
IQR_MULTIPLIER == [num |-> 3, den |-> 2]
BASELINE_MIN_SAMPLES == 13
ANOMALY_SEVERITY_THRESHOLDS == [low |-> 5, medium |-> 10, high |-> 20, critical |-> 50]

(***************************************************************************)
(* BaselineCalculator (analytics/baseline_calculator.py)                   *)
(***************************************************************************)
valid_metrics == {"power_output_kwh", "efficiency_pct", "temperature_c",
                  "irradiance_w_m2", "grid_frequency_hz"}

\* The if/elif chain that reads the named metric off a reading.
MetricOf(reading, metric) ==
    CASE metric = "power_output_kwh" -> reading.power_output_kwh
      [] metric = "efficiency_pct" -> reading.efficiency_pct
      [] metric = "temperature_c" -> reading.temperature_c
      [] metric = "irradiance_w_m2" -> reading.irradiance_w_m2
      [] metric = "grid_frequency_hz" -> reading.grid_frequency_hz

\* _extract_metric_values, for a metric of valid_metrics.
ExtractMetricValues(readings, metric) ==
    [i \in 1..Len(readings) |-> MetricOf(readings[i], metric)]

\* 4 * np.percentile(values, 25 * k), k = 1, 2, 3: linear interpolation
\* between the two ranks around position k * (n - 1) / 4 of the sorted values.
PercentileX4(sorted, k) ==
    LET t == k * (Len(sorted) - 1)
        lo == t \div 4
        rem == t % 4
    IN  4 * sorted[lo + 1]
        + (IF rem > 0 THEN rem * (sorted[lo + 2] - sorted[lo + 1]) ELSE 0)

MinOf(S) == CHOOSE x \in S : \A y \in S : x <= y
MaxOf(S) == CHOOSE x \in S : \A y \in S : y <= x

\* _infer_period_name: the model's days all lie in January 2025.
InferPeriodName(readings) == IF readings = <<>> THEN "UNKNOWN" ELSE "Q1_2025"

\* calculate() raises ValueError: too few readings, or an unknown metric.
CalculateRaises(readings, metric) ==
    \/ Len(readings) < BASELINE_MIN_SAMPLES
    \/ metric \notin valid_metrics

\* float("nan"), which temperature_c (a float with no constraint) can hold:
\* a value outside every range the model draws numbers from.  Arithmetic on
\* it yields NaN and every comparison with it is false.
NaN == -1000000

HasNaN(values) == \E i \in 1..Len(values) : values[i] = NaN

\* The statistics calculate() passes to Baseline(...).  With n readings the
\* Baseline's scale is 4n: the mean is a multiple of 1/n and numpy's
\* quartiles are multiples of 1/4.  With a NaN among the values np.mean,
\* np.std, np.percentile, np.min and np.max all return NaN.
\* "period_name or self._infer_period_name(readings)" also infers the name
\* when the one given is the empty string.
calculate(readings, plant_id, metric, period_name) ==
    LET values == ExtractMetricValues(readings, metric)
        n == Len(values)
        total == SumSeq(values)
        squares == SumSeq([i \in 1..n |-> values[i] * values[i]])
        sorted == SortSeq(values, LAMBDA a, b : a < b)
        q1 == n * PercentileX4(sorted, 1)
        q2 == n * PercentileX4(sorted, 2)
        q3 == n * PercentileX4(sorted, 3)
        dates == {strptime(readings[i].date) : i \in 1..Len(readings)}
        name == IF period_name # None /\ period_name # Some("")
                THEN CHOOSE x \in period_name : TRUE
                ELSE InferPeriodName(readings)
    IN  IF HasNaN(values)
        THEN [plant_id |-> plant_id, period_name |-> name, metric_name |-> metric,
              scale |-> 1, mean |-> NaN, std_dev_sq |-> NaN,
              q1 |-> NaN, q2 |-> NaN, q3 |-> NaN, iqr |-> NaN,
              min_val |-> NaN, max_val |-> NaN,
              samples_count |-> n,
              date_range |-> <<MinOf(dates), MaxOf(dates)>>]
        ELSE [plant_id |-> plant_id, period_name |-> name, metric_name |-> metric,
              scale |-> 4 * n,
              mean |-> 4 * total,
              std_dev_sq |-> 16 * (n * squares - total * total),
              q1 |-> q1, q2 |-> q2, q3 |-> q3,
              iqr |-> q3 - q1,
              min_val |-> 4 * n * MinOf(Range(values)),
              max_val |-> 4 * n * MaxOf(Range(values)),
              samples_count |-> n,
              date_range |-> <<MinOf(dates), MaxOf(dates)>>]

\* The field constraints of the Baseline model (std_dev >= 0, iqr >= 0,
\* samples_count >= 13): whether Baseline(...) raises.  Whether "ge=0" lets a
\* NaN through depends on the pydantic build; nan_passes_ge says which.
BaselineRejected(baseline, nan_passes_ge) ==
    IF baseline.std_dev_sq = NaN \/ baseline.iqr = NaN
    THEN ~nan_passes_ge
    ELSE baseline.std_dev_sq < 0 \/ baseline.iqr < 0 \/ baseline.samples_count < 13

\* One call of calculate(): it raises, or returns the Baseline.
CalculateCall(readings, plant_id, metric, period_name, nan_passes_ge) ==
    IF CalculateRaises(readings, metric) THEN [raised |-> TRUE, value |-> Idle]
    ELSE LET baseline == calculate(readings, plant_id, metric, period_name)
         IN  IF BaselineRejected(baseline, nan_passes_ge)
             THEN [raised |-> TRUE, value |-> Idle]
             ELSE [raised |-> FALSE, value |-> baseline]

\* An update_rolling that counts the prior baseline's samples towards the
\* minimum and towards samples_count.
UpdateRollingMerged(baseline, new_readings, nan_passes_ge) ==
    LET padding == [i \in 1..(BASELINE_MIN_SAMPLES - Len(new_readings)) |-> new_readings[1]]
        enough == baseline.samples_count + Len(new_readings) >= BASELINE_MIN_SAMPLES
        call == CalculateCall(IF Len(new_readings) < BASELINE_MIN_SAMPLES /\ new_readings # <<>>
                              THEN new_readings \o padding ELSE new_readings,
                              baseline.plant_id, baseline.metric_name,
                              Some(baseline.period_name), nan_passes_ge)
    IN  IF ~enough \/ call.raised
        THEN [raised |-> TRUE, value |-> Idle, baseline_after |-> baseline]
        ELSE [raised |-> FALSE,
              value |-> [call.value EXCEPT
                            !.samples_count = baseline.samples_count + Len(new_readings)],
              baseline_after |-> baseline]

\* update_rolling(baseline, new_readings): calculate() over new_readings with
\* the prior baseline's plant, metric and period name; the prior baseline is
\* only read.
update_rolling(baseline, new_readings, nan_passes_ge) ==
    LET call == CalculateCall(new_readings, baseline.plant_id, baseline.metric_name,
                              Some(baseline.period_name), nan_passes_ge)
    IN  [raised |-> call.raised, value |-> call.value, baseline_after |-> baseline]

(***************************************************************************)
(* AnomalyDetector (analytics/anomaly_detector.py)                         *)
(***************************************************************************)
\* AnomalyDetector(zscore_threshold, iqr_multiplier)
AnomalyDetector(zscore_threshold, iqr_multiplier) ==
    [zscore_threshold |-> zscore_threshold, iqr_multiplier |-> iqr_multiplier]

\* abs() of a fraction [num, den], den > 0.
AbsFrac(f) == [num |-> Abs(f.num), den |-> f.den]

\* a >= n for a fraction a with den > 0 and an integer n.
FracGe(a, n) == a.num >= n * a.den

\* classify_severity without the abs(): the sign of the deviation decides.
ClassifySeveritySigned(deviation_pct) ==
    IF FracGe(deviation_pct, ANOMALY_SEVERITY_THRESHOLDS.critical) THEN "critical"
    ELSE IF FracGe(deviation_pct, ANOMALY_SEVERITY_THRESHOLDS.high) THEN "high"
    ELSE IF FracGe(deviation_pct, ANOMALY_SEVERITY_THRESHOLDS.medium) THEN "medium"
    ELSE "low"

\* classify_severity with no tier for a deviation under the "low" threshold.
ClassifySeverityNoFloor(deviation_pct) ==
    LET abs_deviation == AbsFrac(deviation_pct)
    IN  IF FracGe(abs_deviation, ANOMALY_SEVERITY_THRESHOLDS.critical) THEN "critical"
        ELSE IF FracGe(abs_deviation, ANOMALY_SEVERITY_THRESHOLDS.high) THEN "high"
        ELSE IF FracGe(abs_deviation, ANOMALY_SEVERITY_THRESHOLDS.medium) THEN "medium"
        ELSE IF FracGe(abs_deviation, ANOMALY_SEVERITY_THRESHOLDS.low) THEN "low"
        ELSE "negligible"

classify_severity(deviation_pct) ==
    LET abs_deviation == AbsFrac(deviation_pct)
    IN  IF FracGe(abs_deviation, ANOMALY_SEVERITY_THRESHOLDS.critical) THEN "critical"
        ELSE IF FracGe(abs_deviation, ANOMALY_SEVERITY_THRESHOLDS.high) THEN "high"
        ELSE IF FracGe(abs_deviation, ANOMALY_SEVERITY_THRESHOLDS.medium) THEN "medium"
        ELSE IF FracGe(abs_deviation, ANOMALY_SEVERITY_THRESHOLDS.low) THEN "low"
        ELSE "low"

\* ((value - mean) / mean * 100) if mean != 0 else 0, as a fraction, den > 0.
DeviationPct(value, baseline) ==
    IF baseline.mean = 0 THEN [num |-> 0, den |-> 1]
    ELSE IF baseline.mean > 0
    THEN [num |-> (value * baseline.scale - baseline.mean) * 100, den |-> baseline.mean]
    ELSE [num |-> -((value * baseline.scale - baseline.mean) * 100), den |-> -baseline.mean]

\* An anomaly that records the z-score and the bounds whatever the method.
CreateAnomalyBothFields(reading, value, baseline, detection_method, z_score, iqr_bounds) ==
    [plant_id |-> reading.plant_id, date |-> reading.date,
     metric_name |-> baseline.metric_name, actual_value |-> value,
     expected_value |-> [num |-> baseline.mean, den |-> baseline.scale],
     deviation_pct |-> DeviationPct(value, baseline),
     severity |-> classify_severity(DeviationPct(value, baseline)),
     detected_by |-> detection_method,
     z_score |-> Some([num |-> value * baseline.scale - baseline.mean,
                       den_sq |-> baseline.std_dev_sq]),
     iqr_bounds |-> Some([lower |-> baseline.q1, upper |-> baseline.q3]),
     status |-> "open"]

\* _create_anomaly.  anomaly_id (a random suffix) and detection_timestamp
\* (the wall clock) are left out of the record.
create_anomaly(reading, value, baseline, detection_method, z_score, iqr_bounds) ==
    [plant_id |-> reading.plant_id, date |-> reading.date,
     metric_name |-> baseline.metric_name, actual_value |-> value,
     expected_value |-> [num |-> baseline.mean, den |-> baseline.scale],
     deviation_pct |-> DeviationPct(value, baseline),
     severity |-> classify_severity(DeviationPct(value, baseline)),
     detected_by |-> detection_method,
     z_score |-> z_score,
     iqr_bounds |-> iqr_bounds,
     status |-> "open"]

\* z_score = (value - mean) / std_dev, kept as num / sqrt(den_sq).
ZScore(value, baseline) ==
    [num |-> value * baseline.scale - baseline.mean, den_sq |-> baseline.std_dev_sq]

\* The comparison of _detect_zscore turned round: abs(z_score) < threshold.
AbsZLt(z, threshold) ==
    /\ threshold.num > 0
    /\ z.num * z.num * threshold.den * threshold.den
         < threshold.num * threshold.num * z.den_sq

\* abs(z_score) > threshold, for den_sq > 0 and a threshold fraction.
AbsZGt(z, threshold) ==
    \/ threshold.num < 0
    \/ z.num * z.num * threshold.den * threshold.den
         > threshold.num * threshold.num * z.den_sq

\* _detect_zscore(reading, value, baseline): None or Some(anomaly).
detect_zscore_one(self, reading, value, baseline) ==
    IF baseline.std_dev_sq = 0 THEN None
    ELSE LET z_score == ZScore(value, baseline)
         IN  IF AbsZGt(z_score, self.zscore_threshold)
             THEN Some(create_anomaly(reading, value, baseline, "zscore",
                                      Some(z_score), None))
             ELSE None

\* lower_bound and upper_bound of _detect_iqr, as fractions over
\* scale * iqr_multiplier.den.
IqrBounds(self, baseline) ==
    LET m == self.iqr_multiplier
    IN  [lower |-> [num |-> baseline.q1 * m.den - m.num * baseline.iqr,
                    den |-> baseline.scale * m.den],
         upper |-> [num |-> baseline.q3 * m.den + m.num * baseline.iqr,
                    den |-> baseline.scale * m.den]]

\* _detect_iqr(reading, value, baseline): None or Some(anomaly).
detect_iqr_one(self, reading, value, baseline) ==
    LET b == IqrBounds(self, baseline)
    IN  IF value * b.lower.den < b.lower.num \/ value * b.upper.den > b.upper.num
        THEN Some(create_anomaly(reading, value, baseline, "iqr", None, Some(b)))
        ELSE None

\* _extract_metric_from_readings: an unknown metric appends nothing.
ExtractMetricFromReadings(readings, metric) ==
    IF metric \in valid_metrics
    THEN [i \in 1..Len(readings) |-> MetricOf(readings[i], metric)]
    ELSE <<>>

\* One iteration of detect()'s loop that runs both tests and keeps both results.
DetectOneBoth(self, readings, baseline, i) ==
    LET values == ExtractMetricFromReadings(readings, baseline.metric_name)
        z == detect_zscore_one(self, readings[i], values[i], baseline)
        q == detect_iqr_one(self, readings[i], values[i], baseline)
    IN  IF i > Len(values) THEN <<>>
        ELSE (IF z # None THEN <<CHOOSE a \in z : TRUE>> ELSE <<>>)
             \o (IF q # None THEN <<CHOOSE a \in q : TRUE>> ELSE <<>>)

\* One iteration of detect()'s loop, for reading i: the anomalies it appends.
DetectOne(self, readings, baseline, i) ==
    LET values == ExtractMetricFromReadings(readings, baseline.metric_name)
        z == detect_zscore_one(self, readings[i], values[i], baseline)
        q == detect_iqr_one(self, readings[i], values[i], baseline)
    IN  IF i > Len(values) THEN <<>>
        ELSE IF z # None THEN <<CHOOSE a \in z : TRUE>>
        ELSE IF q # None THEN <<CHOOSE a \in q : TRUE>>
        ELSE <<>>

\* detect(readings, baseline): the whole loop.
RECURSIVE DetectFrom(_, _, _, _)
DetectFrom(self, readings, baseline, i) ==
    IF i > Len(readings) THEN <<>>
    ELSE DetectOne(self, readings, baseline, i) \o DetectFrom(self, readings, baseline, i + 1)

detect(self, readings, baseline) == DetectFrom(self, readings, baseline, 1)

\* "argument or default" for an optional number: Python's or takes the
\* default for None and for 0 alike.
OrDefault(argument, default) ==
    IF argument = None THEN default
    ELSE LET v == CHOOSE x \in argument : TRUE
         IN  IF v.num = 0 THEN default ELSE v

\* z_score of detect_zscore: (value - mean) / std_dev if std_dev > 0 else 0.
ZScoreOrZero(value, baseline) ==
    IF baseline.std_dev_sq > 0 THEN ZScore(value, baseline)
    ELSE [num |-> 0, den_sq |-> 1]

\* detect_zscore(readings, baseline, threshold), from reading i on.
RECURSIVE DetectZscoreFrom(_, _, _, _)
DetectZscoreFrom(threshold, readings, baseline, i) ==
    LET values == ExtractMetricFromReadings(readings, baseline.metric_name)
        z_score == ZScoreOrZero(values[i], baseline)
        rest == DetectZscoreFrom(threshold, readings, baseline, i + 1)
    IN  IF i > Len(readings) THEN <<>>
        ELSE IF i > Len(values) THEN rest
        ELSE IF AbsZGt(z_score, threshold)
        THEN <<create_anomaly(readings[i], values[i], baseline, "zscore",
                              Some(z_score), None)>> \o rest
        ELSE rest

detect_zscore(self, readings, baseline, threshold) ==
    DetectZscoreFrom(OrDefault(threshold, self.zscore_threshold), readings, baseline, 1)

\* detect_iqr(readings, baseline, multiplier), from reading i on.
RECURSIVE DetectIqrFrom(_, _, _, _)
DetectIqrFrom(multiplier, readings, baseline, i) ==
    LET values == ExtractMetricFromReadings(readings, baseline.metric_name)
        b == IqrBounds([iqr_multiplier |-> multiplier], baseline)
        rest == DetectIqrFrom(multiplier, readings, baseline, i + 1)
    IN  IF i > Len(readings) THEN <<>>
        ELSE IF i > Len(values) THEN rest
        ELSE IF values[i] * b.lower.den < b.lower.num
                \/ values[i] * b.upper.den > b.upper.num
        THEN <<create_anomaly(readings[i], values[i], baseline, "iqr",
                              None, Some(b))>> \o rest
        ELSE rest

detect_iqr(self, readings, baseline, multiplier) ==
    DetectIqrFrom(OrDefault(multiplier, self.iqr_multiplier), readings, baseline, 1)

(***************************************************************************)
(* DataPipeline (analytics/data_pipeline.py)                               *)
(***************************************************************************)
\* The literal 13 of _analyze_metric.
MinReadings == 13

EmptyDict == [k \in {} |-> k]

\* An entry of result.errors or result.warnings: the message's text and the
\* values formatted into it (plant "" / metric "" / count 0 when it has none).
Msg(kind, plant, metric, count) ==
    [kind |-> kind, plant |-> plant, metric |-> metric, count |-> count]

\* The step of execute at which a collaborator (self.validator,
\* self.baseline_calculator, self.anomaly_detector) raises an exception of
\* its own for one plant: an input of the run.  NoFault: none does.
NoFault == [plant |-> "", step |-> "none", metric |-> ""]

Faulty(fault, plant_id, step, metric) ==
    fault.plant = plant_id /\ fault.step = step /\ fault.metric = metric

\* metrics = metrics or ["power_output_kwh"]
EffectiveMetrics(metrics) == IF metrics = <<>> THEN <<"power_output_kwh">> ELSE metrics

\* result = PipelineResult(success=True, ...): a result that starts successful.
NewResultSuccessful ==
    [success |-> TRUE, plants |-> <<>>, readings_by_plant |-> EmptyDict,
     baselines_by_plant |-> EmptyDict, anomalies_by_plant |-> EmptyDict,
     errors |-> <<>>, warnings |-> <<>>]

\* result = PipelineResult(success=False, ...)
NewResult ==
    [success |-> FALSE, plants |-> <<>>, readings_by_plant |-> EmptyDict,
     baselines_by_plant |-> EmptyDict, anomalies_by_plant |-> EmptyDict,
     errors |-> <<>>, warnings |-> <<>>]

\* result.plants = self._load_plants(path, result)
load_plants(res, source) ==
    IF source.readable
    THEN [res EXCEPT !.plants = source.plants]
    ELSE [res EXCEPT !.plants = <<>>,
                     !.errors = Append(@, Msg("Error loading plants CSV", "", "", 0))]

\* result.readings_by_plant = self._load_readings(path, result)
load_readings(res, source) ==
    IF source.readable
    THEN [res EXCEPT !.readings_by_plant = source.readings]
    ELSE [res EXCEPT !.readings_by_plant = EmptyDict,
                     !.errors = Append(@, Msg("Error loading readings CSV", "", "", 0))]

\* "if not result.plants or not result.readings_by_plant"
NothingLoaded(res) == res.plants = <<>> \/ DOMAIN res.readings_by_plant = {}

\* [readings[i] for i, r in enumerate(validation_results) if r.is_valid]
ValidOnly(readings) ==
    LET validation_results == validate_batch(readings)
        F[i \in 0..Len(readings)] ==
            IF i = 0 THEN <<>>
            ELSE IF validation_results[i].is_valid THEN Append(F[i - 1], readings[i])
            ELSE F[i - 1]
    IN  F[Len(readings)]

\* _validate_readings(plant_id, readings, result)
validate_readings(plant_id, readings, res) ==
    LET valid_readings == ValidOnly(readings)
        invalid_count == Len(readings) - Len(valid_readings)
    IN  [readings |-> valid_readings,
         result |-> IF invalid_count > 0
                    THEN [res EXCEPT !.warnings =
                            Append(@, Msg("invalid readings filtered", plant_id, "", invalid_count))]
                    ELSE res]

\* _analyze_metric that lets the exception of calculate or detect escape.
AnalyzeMetricUncaught(plant_id, readings, metric, res, fault) ==
    IF Len(readings) < MinReadings
    THEN [raised |-> FALSE, baselines |-> EmptyDict, anomalies |-> <<>>,
          result |-> [res EXCEPT !.warnings =
                        Append(@, Msg("insufficient readings", plant_id, metric, Len(readings)))]]
    ELSE IF \/ CalculateRaises(readings, metric)
            \/ Faulty(fault, plant_id, "calculate", metric)
            \/ Faulty(fault, plant_id, "detect", metric)
    THEN [raised |-> TRUE, baselines |-> EmptyDict, anomalies |-> <<>>, result |-> res]
    ELSE LET baseline == calculate(readings, plant_id, metric, None)
         IN  [raised |-> FALSE,
              baselines |-> (metric :> baseline),
              anomalies |-> detect(AnomalyDetector(ZSCORE_THRESHOLD, IQR_MULTIPLIER),
                                   readings, baseline),
              result |-> res]

\* _analyze_metric without its own length check: calculate's ValueError for
\* too few readings is caught like any other exception.
AnalyzeMetricNoGuard(plant_id, readings, metric, res, fault) ==
    IF \/ CalculateRaises(readings, metric)
       \/ Faulty(fault, plant_id, "calculate", metric)
       \/ Faulty(fault, plant_id, "detect", metric)
    THEN [raised |-> FALSE, baselines |-> EmptyDict, anomalies |-> <<>>,
          result |-> [res EXCEPT !.errors =
                        Append(@, Msg("Error analyzing", plant_id, metric, 0))]]
    ELSE LET baseline == calculate(readings, plant_id, metric, None)
         IN  [raised |-> FALSE,
              baselines |-> (metric :> baseline),
              anomalies |-> detect(AnomalyDetector(ZSCORE_THRESHOLD, IQR_MULTIPLIER),
                                   readings, baseline),
              result |-> res]

\* _analyze_metric(plant_id, readings, metric, result): the (baselines,
\* anomalies) it returns and the result it leaves.  Its try/except catches
\* whatever calculate or detect raises, so raised is always FALSE.
analyze_metric(plant_id, readings, metric, res, fault) ==
    IF Len(readings) < MinReadings
    THEN [raised |-> FALSE, baselines |-> EmptyDict, anomalies |-> <<>>,
          result |-> [res EXCEPT !.warnings =
                        Append(@, Msg("insufficient readings", plant_id, metric, Len(readings)))]]
    ELSE IF \/ CalculateRaises(readings, metric)
            \/ Faulty(fault, plant_id, "calculate", metric)
            \/ Faulty(fault, plant_id, "detect", metric)
    THEN [raised |-> FALSE, baselines |-> EmptyDict, anomalies |-> <<>>,
          result |-> [res EXCEPT !.errors =
                        Append(@, Msg("Error analyzing", plant_id, metric, 0))]]
    ELSE LET baseline == calculate(readings, plant_id, metric, None)
         IN  [raised |-> FALSE,
              baselines |-> (metric :> baseline),
              anomalies |-> detect(AnomalyDetector(ZSCORE_THRESHOLD, IQR_MULTIPLIER),
                                   readings, baseline),
              result |-> res]

\* "for metric in metrics" of _process_plant, from metric i on.
RECURSIVE MetricsLoop(_, _, _, _, _, _)
MetricsLoop(plant_id, readings, metrics, i, res, fault) ==
    IF i > Len(metrics) THEN [raised |-> FALSE, result |-> res]
    ELSE LET got == analyze_metric(plant_id, readings, metrics[i], res, fault)
             r1 == got.result
             r2 == [r1 EXCEPT
                      !.baselines_by_plant[plant_id] = got.baselines @@ @,
                      !.anomalies_by_plant[plant_id] = @ \o got.anomalies]
         IN  IF got.raised THEN [raised |-> TRUE, result |-> r1]
             ELSE MetricsLoop(plant_id, readings, metrics, i + 1, r2, fault)

\* Steps 2b-2d of _process_plant, on the readings that passed step 2a.
CleanAndAnalyze(plant_id, readings, res, metrics, fill_gaps, fault) ==
    LET deduped == remove_duplicates(readings)
        fill == fill_gaps /\ Len(deduped) > 1
        cleaned == IF fill THEN fill_date_gaps(deduped, "interpolate") ELSE deduped
        r1 == [res EXCEPT
                 !.readings_by_plant = (plant_id :> cleaned) @@ @,
                 !.baselines_by_plant = (plant_id :> EmptyDict) @@ @,
                 !.anomalies_by_plant = (plant_id :> <<>>) @@ @]
    IN  IF Faulty(fault, plant_id, "remove_duplicates", "")
        THEN [raised |-> TRUE, result |-> res]
        ELSE IF fill /\ Faulty(fault, plant_id, "fill_date_gaps", "")
        THEN [raised |-> TRUE, result |-> res]
        ELSE MetricsLoop(plant_id, cleaned, metrics, 1, r1, fault)

\* _process_plant(plant_id, result, metrics, validate, fill_gaps): whether an
\* exception leaves it, and the result as it then stands.
process_plant(plant_id, res, metrics, validate_flag, fill_gaps, fault) ==
    LET readings == IF plant_id \in DOMAIN res.readings_by_plant
                    THEN res.readings_by_plant[plant_id] ELSE <<>>
        checked == validate_readings(plant_id, readings, res)
    IN  IF readings = <<>>
        THEN [raised |-> FALSE,
              result |-> [res EXCEPT !.warnings =
                            Append(@, Msg("No readings found for plant", plant_id, "", 0))]]
        ELSE IF ~validate_flag
        THEN CleanAndAnalyze(plant_id, readings, res, metrics, fill_gaps, fault)
        ELSE IF Faulty(fault, plant_id, "validate_batch", "")
        THEN [raised |-> TRUE, result |-> res]
        ELSE IF checked.readings = <<>>
        THEN [raised |-> FALSE,
              result |-> [checked.result EXCEPT !.warnings =
                            Append(@, Msg("No valid readings for plant", plant_id, "", 0))]]
        ELSE CleanAndAnalyze(plant_id, checked.readings, checked.result,
                             metrics, fill_gaps, fault)

\* "except Exception as e" of execute: the error is recorded, the loop over
\* the plants is left, and the result is returned as it stands.
execute_except(res) ==
    [res EXCEPT !.errors = Append(@, Msg("Pipeline execution error", "", "", 0))]

\* result.success = True, whatever was recorded.
SetSuccessAlways(res) == [res EXCEPT !.success = TRUE]

\* result.success = len(result.errors) == 0
set_success(res) == [res EXCEPT !.success = (Len(res.errors) = 0)]

RECURSIVE ExecuteLoop(_, _, _)
\* "for plant_id in result.plants" of execute from the i-th plant on, then
\* result.success; a raising iteration ends in "except Exception".
ExecuteLoop(res, i, a) ==
    IF i > Len(res.plants) THEN set_success(res)
    ELSE LET processed == process_plant(res.plants[i], res, EffectiveMetrics(a.metrics),
                                        a.validate, a.fill_gaps, a.fault)
         IN  IF processed.raised THEN execute_except(processed.result)
             ELSE ExecuteLoop(processed.result, i + 1, a)

\* execute, as a function of its arguments and sources: the result returned.
execute(a) ==
    LET loaded == load_readings(load_plants(NewResult, a.plants_source), a.readings_source)
    IN  IF NothingLoaded(loaded)
        THEN [loaded EXCEPT !.errors =
                 Append(@, Msg("No plants or readings loaded", "", "", 0))]
        ELSE ExecuteLoop(loaded, 1, a)

(***************************************************************************)
(* Spec: one run of DataPipeline.execute                                   *)
(***************************************************************************)
Plants == {"P1", "P2"}

\* power_output_kwh of day i of a full series: flat but for a spike on day 13.
SeriesPower(i) == IF i = 13 THEN 200 ELSE 100 + 2 * (i % 3)

\* temperature_c of day i: two low and two high days around a flat level.
SeriesTemp(i) == IF i \in {1, 2} THEN 0 ELSE IF i \in {3, 4} THEN 40 ELSE 20

SeriesReading(plant_id, i) ==
    DailyReading(plant_id, Date(i, TRUE), SeriesPower(i), 18, SeriesTemp(i),
                 800, "active", 500)

FullSeries(plant_id) == [i \in 1..13 |-> SeriesReading(plant_id, i)]

\* What the readings source holds for one plant.
\*   none      no reading
\*   short     two valid readings, days 1 and 3
\*   unpadded  the same, day 1 spelled unpadded
\*   invalid   two readings, both with inverter_status "OK" (the default of
\*             DailyReading), which validate rejects
\*   full      thirteen valid readings, days 1..13
\*   dirty     the same, then a reading validate rejects (day 14) and a
\*             second, different reading for day 1
\*   gap       the thirteen valid readings without day 7
Shapes == {"none", "short", "unpadded", "invalid", "full", "dirty", "gap"}

ShapeReadings(plant_id, shape) ==
    CASE shape = "none" -> <<>>
      [] shape = "short" -> <<SeriesReading(plant_id, 1), SeriesReading(plant_id, 3)>>
      [] shape = "unpadded" ->
            <<[SeriesReading(plant_id, 1) EXCEPT !.date = Date(1, FALSE)],
              SeriesReading(plant_id, 3)>>
      [] shape = "invalid" ->
            <<[SeriesReading(plant_id, 1) EXCEPT !.inverter_status = "OK"],
              [SeriesReading(plant_id, 2) EXCEPT !.inverter_status = "OK"]>>
      [] shape = "full" -> FullSeries(plant_id)
      [] shape = "dirty" ->
            FullSeries(plant_id)
            \o <<[SeriesReading(plant_id, 14) EXCEPT !.temperature_c = 99],
                 [SeriesReading(plant_id, 1) EXCEPT !.power_output_kwh = 300]>>
      [] shape = "gap" ->
            SubSeq(FullSeries(plant_id), 1, 6) \o SubSeq(FullSeries(plant_id), 8, 13)

\* load_readings: a dict with a key for every plant that has a reading.
ReadingsDict(shapes) ==
    [p \in {q \in Plants : shapes[q] # "none"} |-> ShapeReadings(p, shapes[p])]

PlantsSources ==
    {[readable |-> FALSE, plants |-> <<>>]}
    \cup {[readable |-> TRUE, plants |-> ps] :
            ps \in {<<>>, <<"P1">>, <<"P2">>, <<"P1", "P2">>, <<"P2", "P1">>}}

ReadingsSources ==
    {[readable |-> FALSE, readings |-> EmptyDict]}
    \cup {[readable |-> TRUE, readings |-> ReadingsDict(shapes)] :
            shapes \in [Plants -> Shapes]}

MetricsLists ==
    {<<>>, <<"power_output_kwh", "temperature_c">>, <<"invalid_metric", "power_output_kwh">>}

Faults ==
    {NoFault}
    \cup {[plant |-> p, step |-> st, metric |-> ""] :
            p \in Plants, st \in {"validate_batch", "remove_duplicates", "fill_date_gaps"}}
    \cup {[plant |-> p, step |-> st, metric |-> "power_output_kwh"] :
            p \in Plants, st \in {"calculate", "detect"}}

Init ==
    /\ pc = "load"
    /\ args \in [plants_source : PlantsSources, readings_source : ReadingsSources,
                 metrics : MetricsLists, validate : BOOLEAN, fill_gaps : BOOLEAN,
                 fault : Faults]
    /\ result = NewResult
    /\ plant_idx = 0
    /\ det_in = Idle /\ det_i = 0 /\ anomalies = <<>>
    /\ val_in = Idle /\ val_out = Idle
    /\ sev_in = Idle /\ sev_out = Idle
    /\ IdleBaseline /\ IdlePattern /\ IdleInsights

\* Step 1 of execute, as far as the check of what was loaded.
Loaded == load_readings(load_plants(result, args.plants_source), args.readings_source)

\* Step 1, nothing to process: "No plants or readings loaded", return result.
LoadNothing ==
    /\ pc = "load"
    /\ NothingLoaded(Loaded)
    /\ result' = [Loaded EXCEPT !.errors =
                    Append(@, Msg("No plants or readings loaded", "", "", 0))]
    /\ pc' = "done"
    /\ UNCHANGED <<args, plant_idx, detVars, valVars, sevVars,
                   baseVars, patVars, insVars>>

\* Step 1, plants and readings loaded: on to the loop over result.plants.
LoadSources ==
    /\ pc = "load"
    /\ ~NothingLoaded(Loaded)
    /\ result' = Loaded
    /\ plant_idx' = 1
    /\ pc' = "process"
    /\ UNCHANGED <<args, detVars, valVars, sevVars,
                   baseVars, patVars, insVars>>

Processed ==
    process_plant(result.plants[plant_idx], result, EffectiveMetrics(args.metrics),
                  args.validate, args.fill_gaps, args.fault)

\* Step 2, one iteration of "for plant_id in result.plants".
ProcessPlant ==
    /\ pc = "process"
    /\ plant_idx <= Len(result.plants)
    /\ ~Processed.raised
    /\ result' = Processed.result
    /\ plant_idx' = plant_idx + 1
    /\ UNCHANGED <<pc, args, detVars, valVars, sevVars,
                   baseVars, patVars, insVars>>

\* Step 2, an iteration that ends in execute's "except Exception".
ProcessPlantRaises ==
    /\ pc = "process"
    /\ plant_idx <= Len(result.plants)
    /\ Processed.raised
    /\ result' = execute_except(Processed.result)
    /\ pc' = "done"
    /\ UNCHANGED <<args, plant_idx, detVars, valVars, sevVars,
                   baseVars, patVars, insVars>>

\* The loop is over: result.success is set and the result returned.
Finish ==
    /\ pc = "process"
    /\ plant_idx > Len(result.plants)
    /\ result' = set_success(result)
    /\ pc' = "done"
    /\ UNCHANGED <<args, plant_idx, detVars, valVars, sevVars,
                   baseVars, patVars, insVars>>

Next == LoadNothing \/ LoadSources \/ ProcessPlant \/ ProcessPlantRaises \/ Finish

Spec == Init /\ [][Next]_vars

(***************************************************************************)
(* SpecValidator: one call of a DataValidator method on a list of readings *)
(***************************************************************************)
ValidReading(plant_id, date, power) ==
    DailyReading(plant_id, date, power, 18, 35, 800, "active", 500)

\* The readings the lists are drawn from: two readings may share their key
\* (plant_id, date) and differ in power_output_kwh; one date is spelled
\* unpadded.
ValReadings ==
    {ValidReading("P1", Date(d, TRUE), w) : d \in {1, 2}, w \in {450, 460}}
    \cup {ValidReading("P2", Date(1, TRUE), 450), ValidReading("P1", Date(1, FALSE), 450)}

SeqsUpTo(S, n) == UNION {[1..k -> S] : k \in 0..n}

InitValidator ==
    /\ pc = "call"
    /\ val_in \in SeqsUpTo(ValReadings, MaxLen)
    /\ val_out = Idle
    /\ args = Idle /\ result = Idle /\ plant_idx = 0
    /\ det_in = Idle /\ det_i = 0 /\ anomalies = <<>>
    /\ sev_in = Idle /\ sev_out = Idle
    /\ IdleBaseline /\ IdlePattern /\ IdleInsights

RemoveDuplicates ==
    /\ pc = "call"
    /\ val_out' = [op |-> "remove_duplicates", value |-> remove_duplicates(val_in)]
    /\ pc' = "done"
    /\ UNCHANGED <<val_in, pipeVars, detVars, sevVars,
                   baseVars, patVars, insVars>>

\* remove_duplicates called on the list the first call returned.
RemoveDuplicatesAgain ==
    /\ pc = "done"
    /\ val_out.op = "remove_duplicates"
    /\ val_out' = [op |-> "remove_duplicates_again",
                   value |-> remove_duplicates(val_out.value)]
    /\ pc' = "again"
    /\ UNCHANGED <<val_in, pipeVars, detVars, sevVars,
                   baseVars, patVars, insVars>>

NextValidator == RemoveDuplicates \/ RemoveDuplicatesAgain

SpecValidator == InitValidator /\ [][NextValidator]_vars

(***************************************************************************)
(* SpecValidate: one call of validate or of validate_batch                 *)
(***************************************************************************)
\* Readings for validate: every field takes values inside its rule, on its
\* boundary and outside it.
RuleReadings ==
    {DailyReading(p, Date(d, TRUE), w, e, t, i, st, f) :
        p \in {"P1", "", " "}, d \in {0, 1, Today, Today + 1},
        w \in {-1, 0, 450}, e \in {-1, 0, 18, 100, 101},
        t \in {-51, -50, 35, 80, 81}, i \in {-1, 0, 800, 1500, 1501},
        st \in {"active", "Active", "OK"}, f \in {494, 495, 500, 505, 506}}

\* Readings for validate_batch: one that passes and three that fail, on one,
\* two and three rules.
BatchReadings ==
    {DailyReading("P1", Date(1, TRUE), 450, 18, 35, 800, "active", 500),
     DailyReading("P1", Date(2, TRUE), 450, 18, 35, 800, "OK", 500),
     DailyReading("P1", Date(3, TRUE), 450, 18, 81, 800, "active", 506),
     DailyReading("", Date(0, TRUE), -1, 18, 35, 800, "active", 500)}

InitValidate ==
    /\ pc = "call"
    /\ val_in \in {<<r>> : r \in RuleReadings} \cup SeqsUpTo(BatchReadings, MaxBatch)
    /\ val_out = Idle
    /\ args = Idle /\ result = Idle /\ plant_idx = 0
    /\ det_in = Idle /\ det_i = 0 /\ anomalies = <<>>
    /\ sev_in = Idle /\ sev_out = Idle
    /\ IdleBaseline /\ IdlePattern /\ IdleInsights

\* validator.validate(val_in[1])
Validate ==
    /\ pc = "call"
    /\ Len(val_in) = 1
    /\ val_out' = [op |-> "validate", value |-> ValidateOutcome(val_in[1])]
    /\ pc' = "done"
    /\ UNCHANGED <<val_in, pipeVars, detVars, sevVars,
                   baseVars, patVars, insVars>>

\* validator.validate_batch(val_in)
ValidateBatch ==
    /\ pc = "call"
    /\ val_out' = [op |-> "validate_batch",
                   value |-> [raised |-> ValidateBatchRaises(val_in),
                              results |-> validate_batch(val_in)]]
    /\ pc' = "done"
    /\ UNCHANGED <<val_in, pipeVars, detVars, sevVars,
                   baseVars, patVars, insVars>>

NextValidate == Validate \/ ValidateBatch

SpecValidate == InitValidate /\ [][NextValidate]_vars

(***************************************************************************)
(* SpecFill: one call of fill_date_gaps                                    *)
(***************************************************************************)
\* Two readings per date string on four days, both spellings of each day:
\* their numeric fields differ by 6, which every gap length of the span
\* divides.
FillReadings ==
    {DailyReading("P1", Date(d, pad), 100 + v, 18 + v, 20 + v, 800 + v,
                  IF v = 0 THEN "active" ELSE "standby", 496 + v) :
        d \in 1..4, pad \in BOOLEAN, v \in {0, 6}}

InitFill ==
    /\ pc = "call"
    /\ val_in \in [readings : UNION {[1..k -> FillReadings] : k \in 0..MaxFill},
                    method : {"interpolate", "forward_fill"}]
    /\ val_out = Idle
    /\ args = Idle /\ result = Idle /\ plant_idx = 0
    /\ det_in = Idle /\ det_i = 0 /\ anomalies = <<>>
    /\ sev_in = Idle /\ sev_out = Idle
    /\ IdleBaseline /\ IdlePattern /\ IdleInsights

\* validator.fill_date_gaps(readings, method)
FillDateGaps ==
    /\ pc = "call"
    /\ val_out' = [op |-> "fill_date_gaps",
                   value |-> fill_date_gaps(val_in.readings, val_in.method)]
    /\ pc' = "done"
    /\ UNCHANGED <<val_in, pipeVars, detVars, sevVars,
                   baseVars, patVars, insVars>>

NextFill == FillDateGaps

SpecFill == InitFill /\ [][NextFill]_vars

(***************************************************************************)
(* SpecBaseline: one call of calculate or of update_rolling                *)
(***************************************************************************)
\* The temperature of day i in each series: constant, rising, periodic, and
\* constant with one hot day.
BaseTemp(shape, i) ==
    CASE shape = "flat" -> 20
      [] shape = "ramp" -> 10 + i
      [] shape = "saw" -> 20 + 5 * (i % 3)
      [] shape = "spike" -> IF i = 7 THEN 75 ELSE 20

\* A series of n readings on days 1..n; the reading on day k may hold NaN or
\* a cold temperature instead of the series' own.
BaseSeries(n, shape, k, special) ==
    [i \in 1..n |->
        DailyReading("P1", Date(i, TRUE), 100 + BaseTemp(shape, i), 18,
                     IF i = k /\ special = "nan" THEN NaN
                     ELSE IF i = k /\ special = "cold" THEN -40
                     ELSE BaseTemp(shape, i),
                     800, "active", 499 + (i % 3))]

\* Baselines an earlier call may have left: with few and with many samples.
BasePriors ==
    {[plant_id |-> "P1", period_name |-> pn, metric_name |-> m,
      scale |-> 1, mean |-> 30, std_dev_sq |-> 9,
      q1 |-> 28, q2 |-> 30, q3 |-> 32, iqr |-> 4, min_val |-> 25, max_val |-> 35,
      samples_count |-> c, date_range |-> <<1, 5>>] :
        pn \in {"Q1_2025", ""}, m \in {"temperature_c", "power_output_kwh", "bogus"},
        c \in {13, 90}}

InitBaseline ==
    /\ pc = "call"
    /\ base_in \in [readings : {BaseSeries(n, shape, k, special) :
                                   n \in {0, 1, 12, 13, BaseMaxLen},
                                   shape \in {"flat", "ramp", "saw", "spike"},
                                   k \in {1, 7}, special \in {"none", "nan", "cold"}},
                     baseline : BasePriors,
                     period_name : {None, Some("WINTER_2024")},
                     nan_passes_ge : BOOLEAN]
    /\ base_out = Idle
    /\ args = Idle /\ result = Idle /\ plant_idx = 0
    /\ det_in = Idle /\ det_i = 0 /\ anomalies = <<>>
    /\ val_in = Idle /\ val_out = Idle
    /\ sev_in = Idle /\ sev_out = Idle
    /\ IdlePattern /\ IdleInsights

\* calculator.calculate(readings, plant_id, metric, period_name), with the
\* plant and the metric of base_in.baseline.
Calculate ==
    /\ pc = "call"
    /\ base_out' = [op |-> "calculate",
                    value |-> CalculateCall(base_in.readings, base_in.baseline.plant_id,
                                            base_in.baseline.metric_name,
                                            base_in.period_name, base_in.nan_passes_ge)]
    /\ pc' = "done"
    /\ UNCHANGED <<base_in, pipeVars, detVars, valVars, sevVars, patVars, insVars>>

\* calculator.update_rolling(baseline, new_readings)
UpdateRolling ==
    /\ pc = "call"
    /\ base_out' = [op |-> "update_rolling",
                    value |-> update_rolling(base_in.baseline, base_in.readings,
                                             base_in.nan_passes_ge)]
    /\ pc' = "done"
    /\ UNCHANGED <<base_in, pipeVars, detVars, valVars, sevVars, patVars, insVars>>

NextBaseline == Calculate \/ UpdateRolling

SpecBaseline == InitBaseline /\ [][NextBaseline]_vars

(***************************************************************************)
(* PatternDetector                                                         *)
(*                                                                         *)
(* The detectors need a year of readings, so a list of readings is         *)
(* modelled by what the detectors compute from it: its length, the number  *)
(* of calendar months and of weekdays it covers, the day of its first      *)
(* reading and the days from its first to its last reading (negative when  *)
(* the list runs backwards), and for each field of the readings the        *)
(* average deviation of the monthly and of the weekday means (percent),    *)
(* the spread and the amplitudes of those means, and the annual slope of   *)
(* the fitted line in percent of the mean.                                 *)
(* Every date of a DailyReading parses, so strptime does not fail.         *)
(***************************************************************************)
\* The statistics of a field that is the same in every reading.
FlatField ==
    [seasonal_dev |-> 0, seasonal_std |-> 0, seasonal_amplitude |-> 0,
     weekly_dev |-> 0, weekly_amplitude |-> 0, annual_slope_pct |-> 0]

\* A list of readings with the given statistics of power_output_kwh and a
\* constant temperature_c.
Readings(len, months, seasonal_dev, weekdays, weekly_dev, annual_slope_pct, span_days) ==
    [len |-> len, months |-> months, weekdays |-> weekdays,
     first_day |-> 1000, span_days |-> span_days,
     power_output_kwh |->
        [seasonal_dev |-> seasonal_dev, seasonal_std |-> 5, seasonal_amplitude |-> 40,
         weekly_dev |-> weekly_dev, weekly_amplitude |-> 12,
         annual_slope_pct |-> annual_slope_pct],
     temperature_c |-> FlatField]

\* int(a / b) for b > 0: Python's int() truncates towards zero.
IntDiv(a, b) == IF a >= 0 THEN a \div b ELSE -((-a) \div b)

\* int(days / 365.25)
IntYears(days) == IntDiv(4 * days, 1461)

MinNum(a, b) == IF a <= b THEN a ELSE b
MaxNum(a, b) == IF a >= b THEN a ELSE b

\* The field constraints of the Pattern model: whether Pattern(...) raises.
PatternRejected(pattern) ==
    \/ pattern.occurrence_count < 2
    \/ pattern.significance_score < 0 \/ pattern.significance_score > 100
    \/ pattern.confidence_pct < 0 \/ pattern.confidence_pct > 100

\* pattern_type.upper()
Upper(pattern_type) ==
    CASE pattern_type = "seasonal" -> "SEASONAL"
      [] pattern_type = "weekly" -> "WEEKLY"
      [] pattern_type = "degradation" -> "DEGRADATION"

\* An id generator that leaves the counter alone.
GeneratePatternIdNoIncrement(pattern_type, counter, timestamp) ==
    [id |-> [type |-> Upper(pattern_type), timestamp |-> timestamp, counter |-> counter],
     counter |-> counter]

\* _generate_pattern_id: the id "PAT_<TYPE>_<timestamp>_<counter>" is kept as
\* its three parts (the type has no underscore and the timestamp has fourteen
\* digits, so two ids are the same string exactly when the parts agree);
\* counter is self.pattern_counter before the call, and the result carries
\* the counter after it.
generate_pattern_id(pattern_type, counter, timestamp) ==
    [id |-> [type |-> Upper(pattern_type), timestamp |-> timestamp, counter |-> counter + 1],
     counter |-> counter + 1]

\* What a detector call leaves: whether it raised, the patterns it returned,
\* the ids it generated (with whether the pattern was discarded) and
\* self.pattern_counter.
NoPatterns(counter) ==
    [raised |-> FALSE, patterns |-> <<>>, ids |-> <<>>, counter |-> counter]

\* pattern = Pattern(pattern_id=self._generate_pattern_id(...), ...);
\* patterns.append(pattern); return patterns.  The id is generated before
\* Pattern(...) validates its fields.
BuildPattern(generated, fields) ==
    LET pattern == [fields EXCEPT !.pattern_id = generated.id]
    IN  IF PatternRejected(pattern)
        THEN [raised |-> TRUE, patterns |-> <<>>,
              ids |-> <<[id |-> generated.id, discarded |-> TRUE]>>,
              counter |-> generated.counter]
        ELSE [raised |-> FALSE, patterns |-> <<pattern>>,
              ids |-> <<[id |-> generated.id, discarded |-> FALSE]>>,
              counter |-> generated.counter]

\* Every detector reads "value = reading.power_output_kwh", whatever
\* metric_name is; first_observed_date and last_observed_date are the dates
\* of readings[0] and readings[-1].
detect_seasonal(plant_id, readings, metric_name, counter, timestamp) ==
    LET value == readings.power_output_kwh
    IN  IF readings.len < 365 THEN NoPatterns(counter)
        ELSE IF readings.months < 12 THEN NoPatterns(counter)
        ELSE IF value.seasonal_dev > 15
        THEN BuildPattern(generate_pattern_id("seasonal", counter, timestamp),
                [pattern_id |-> Idle, plant_id |-> plant_id, pattern_type |-> "seasonal",
                 metric_name |-> metric_name, frequency |-> "annual",
                 amplitude |-> Some(value.seasonal_amplitude),
                 significance_score |-> MinNum(100, value.seasonal_dev * 2),
                 confidence_pct |-> MinNum(100, 70 + value.seasonal_std * 2),
                 first_observed_date |-> readings.first_day,
                 last_observed_date |-> readings.first_day + readings.span_days,
                 occurrence_count |-> MaxNum(IntYears(readings.span_days), 2)])
        ELSE NoPatterns(counter)

detect_weekly_cycle(plant_id, readings, metric_name, counter, timestamp) ==
    LET value == readings.power_output_kwh
    IN  IF readings.len < 60 THEN NoPatterns(counter)
        ELSE IF readings.weekdays < 7 THEN NoPatterns(counter)
        ELSE IF value.weekly_dev > 10
        THEN BuildPattern(generate_pattern_id("weekly", counter, timestamp),
                [pattern_id |-> Idle, plant_id |-> plant_id, pattern_type |-> "weekly_cycle",
                 metric_name |-> metric_name, frequency |-> "weekly",
                 amplitude |-> Some(value.weekly_amplitude),
                 significance_score |-> MinNum(100, value.weekly_dev * 3),
                 confidence_pct |-> MinNum(100, 60 + value.weekly_dev * 2),
                 first_observed_date |-> readings.first_day,
                 last_observed_date |-> readings.first_day + readings.span_days,
                 occurrence_count |-> MaxNum(IntDiv(readings.span_days, 28), 4)])
        ELSE NoPatterns(counter)

detect_degradation(plant_id, readings, metric_name, counter, timestamp) ==
    LET value == readings.power_output_kwh
    IN  IF readings.len < 365 THEN NoPatterns(counter)
        ELSE IF value.annual_slope_pct < 0 /\ Abs(value.annual_slope_pct) > 2
        THEN BuildPattern(generate_pattern_id("degradation", counter, timestamp),
                [pattern_id |-> Idle, plant_id |-> plant_id, pattern_type |-> "degradation",
                 metric_name |-> metric_name, frequency |-> "annual",
                 amplitude |-> None,
                 significance_score |-> MinNum(100, Abs(value.annual_slope_pct) * 10),
                 confidence_pct |-> MinNum(100, 70 + Abs(value.annual_slope_pct) * 2),
                 first_observed_date |-> readings.first_day,
                 last_observed_date |-> readings.first_day + readings.span_days,
                 occurrence_count |-> IntYears(readings.span_days)])
        ELSE NoPatterns(counter)

\* A detect whose call of detect_degradation is outside any try.
DetectUnguarded(plant_id, readings, metric_name, counter, timestamp) ==
    IF readings.len = 0 \/ readings.len < 30 THEN NoPatterns(counter)
    ELSE LET seasonal == detect_seasonal(plant_id, readings, metric_name, counter, timestamp)
             weekly == detect_weekly_cycle(plant_id, readings, metric_name,
                                           seasonal.counter, timestamp)
             degradation == detect_degradation(plant_id, readings, metric_name,
                                               weekly.counter, timestamp)
         IN  [raised |-> degradation.raised,
              patterns |-> IF degradation.raised THEN <<>>
                           ELSE seasonal.patterns \o weekly.patterns \o degradation.patterns,
              ids |-> seasonal.ids \o weekly.ids \o degradation.ids,
              counter |-> degradation.counter]

\* PatternDetector.detect: the three detectors in turn, each inside its own try/except
\* Exception, which drops the failed detector's patterns and goes on.  The
\* calls of one detect fall within one second of the clock.
detect_patterns(plant_id, readings, metric_name, counter, timestamp) ==
    IF readings.len = 0 \/ readings.len < 30 THEN NoPatterns(counter)
    ELSE LET seasonal == detect_seasonal(plant_id, readings, metric_name, counter, timestamp)
             weekly == detect_weekly_cycle(plant_id, readings, metric_name,
                                           seasonal.counter, timestamp)
             degradation == detect_degradation(plant_id, readings, metric_name,
                                               weekly.counter, timestamp)
         IN  [raised |-> FALSE,
              patterns |-> seasonal.patterns \o weekly.patterns \o degradation.patterns,
              ids |-> seasonal.ids \o weekly.ids \o degradation.ids,
              counter |-> degradation.counter]

(***************************************************************************)
(* SpecPattern: calls of one PatternDetector, one after another            *)
(***************************************************************************)
\* Lists too short for any detector, long enough for the weekly one only,
\* and of a year or more: with and without each pattern, spanning less and
\* more than two years, and two years supplied latest reading first.
PatternReadings ==
    {Readings(len, 1, 0, 7, 0, 0, len) : len \in {0, 29, 30}}
    \cup {Readings(60, 2, 20, wd, 11, -5, 59) : wd \in {6, 7}}
    \cup {Readings(365 + (span \div 400), 12, sdev, 7, wdev, slope, span) :
              sdev \in {15, 16}, wdev \in {10, 11}, slope \in {3, -3},
              span \in {400, 731}}
    \cup {Readings(365, 11, 16, 7, 11, -3, 400), Readings(366, 12, 16, 7, 11, -2, 731)}
    \cup {Readings(732, 12, 16, 7, wdev, -3, -731) : wdev \in {10, 11}}

\* The metric names a detector is called with on a list of readings:
\* power_output_kwh on every list, temperature_c on the lists of two years.
PatternMetrics(readings) ==
    IF readings.span_days = 731 THEN {"power_output_kwh", "temperature_c"}
    ELSE {"power_output_kwh"}

Clock == 0..MaxNow

InitPattern ==
    /\ pc = "call"
    /\ IdlePattern
    /\ args = Idle /\ result = Idle /\ plant_idx = 0
    /\ det_in = Idle /\ det_i = 0 /\ anomalies = <<>>
    /\ val_in = Idle /\ val_out = Idle
    /\ sev_in = Idle /\ sev_out = Idle
    /\ IdleBaseline /\ IdleInsights

\* One call of the detector at clock reading timestamp, with outcome call.
PatternCall(op, readings, metric_name, timestamp, call) ==
    /\ pat_in' = [op |-> op, plant_id |-> "P1", readings |-> readings,
                  metric_name |-> metric_name]
    /\ now' = timestamp
    /\ pattern_counter' = call.counter
    /\ pat_ids' = pat_ids \o call.ids
    /\ pat_out' = [op |-> op, raised |-> call.raised, patterns |-> call.patterns]
    /\ UNCHANGED <<pc, pipeVars, detVars, valVars, sevVars, baseVars, insVars>>

\* detector.detect(plant_id, readings, metric_name)
Detect ==
    /\ pc = "call" /\ pattern_counter < MaxIds
    /\ \E readings \in PatternReadings, timestamp \in Clock :
       \E metric_name \in PatternMetrics(readings) :
          PatternCall("detect", readings, metric_name, timestamp,
                      detect_patterns("P1", readings, metric_name, pattern_counter, timestamp))

DetectSeasonal ==
    /\ pc = "call" /\ pattern_counter < MaxIds
    /\ \E readings \in PatternReadings, timestamp \in Clock :
       \E metric_name \in PatternMetrics(readings) :
          PatternCall("detect_seasonal", readings, metric_name, timestamp,
                      detect_seasonal("P1", readings, metric_name, pattern_counter, timestamp))

DetectWeeklyCycle ==
    /\ pc = "call" /\ pattern_counter < MaxIds
    /\ \E readings \in PatternReadings, timestamp \in Clock :
       \E metric_name \in PatternMetrics(readings) :
          PatternCall("detect_weekly_cycle", readings, metric_name, timestamp,
                      detect_weekly_cycle("P1", readings, metric_name, pattern_counter, timestamp))

DetectDegradation ==
    /\ pc = "call" /\ pattern_counter < MaxIds
    /\ \E readings \in PatternReadings, timestamp \in Clock :
       \E metric_name \in PatternMetrics(readings) :
          PatternCall("detect_degradation", readings, metric_name, timestamp,
                      detect_degradation("P1", readings, metric_name, pattern_counter, timestamp))

NextPattern == Detect \/ DetectSeasonal \/ DetectWeeklyCycle \/ DetectDegradation

SpecPattern == InitPattern /\ [][NextPattern]_vars

(***************************************************************************)
(* InsightsEngine                                                          *)
(*                                                                         *)
(* Confidences are fractions [num, den].  insight_id (a random uuid), the  *)
(* generation date and the texts of an Insight that always format are left *)
(* out; business_impact is the one text whose formatting can fail.         *)
(***************************************************************************)
\* _calculate_confidence_from_anomaly
calculate_confidence_from_anomaly(anomaly) ==
    IF anomaly.z_score # None
    THEN MinNum(100, Abs(CHOOSE z \in anomaly.z_score : TRUE) * 15)
    ELSE MinNum(100, Abs(anomaly.deviation_pct))

\* _map_severity_to_urgency: an Anomaly's severity is one of the four
\* lower-case names, so severity.lower() is the severity.
map_severity_to_urgency(severity) ==
    IF severity \in {"low", "medium", "high", "critical"} THEN severity ELSE "medium"

\* _map_score_to_urgency
map_score_to_urgency(score) ==
    IF FracGe(score, 85) THEN "critical"
    ELSE IF FracGe(score, 65) THEN "high"
    ELSE IF FracGe(score, 45) THEN "medium"
    ELSE "low"

Whole(n) == [num |-> n, den |-> 1]

\* The Insight _generate_anomaly_insights builds for one anomaly.
AnomalyInsight(anomaly) ==
    [plant_id |-> anomaly.plant_id,
     insight_type |-> "anomaly_cause_hypothesis",
     confidence |-> Whole(calculate_confidence_from_anomaly(anomaly)),
     urgency |-> map_severity_to_urgency(anomaly.severity),
     linked_patterns |-> <<>>,
     linked_anomalies |-> <<anomaly.anomaly_id>>]

generate_anomaly_insights(self) ==
    [i \in 1..Len(self.anomalies) |-> AnomalyInsight(self.anomalies[i])]

\* f"Equipment showing {pattern.amplitude:.1f}% degradation. ..." raises
\* TypeError when amplitude is None; no other pattern type formats it.
BusinessImpactRaises(pattern) ==
    pattern.pattern_type = "degradation" /\ pattern.amplitude = None

\* The Insight _generate_pattern_insights builds for one pattern.
PatternInsight(pattern) ==
    [plant_id |-> pattern.plant_id,
     insight_type |-> IF pattern.pattern_type = "degradation"
                      THEN "performance_trend" ELSE "pattern_explanation",
     confidence |-> Whole(pattern.confidence_pct),
     urgency |-> map_score_to_urgency(Whole(pattern.significance_score)),
     linked_patterns |-> <<pattern.pattern_id>>,
     linked_anomalies |-> <<>>]

\* _generate_pattern_insights: it raises at the first pattern whose
\* business_impact cannot be formatted.
generate_pattern_insights(self) ==
    IF \E i \in 1..Len(self.patterns) : BusinessImpactRaises(self.patterns[i])
    THEN [raised |-> TRUE, insights |-> <<>>]
    ELSE [raised |-> FALSE,
          insights |-> [i \in 1..Len(self.patterns) |-> PatternInsight(self.patterns[i])]]

RECURSIVE SelectPatterns(_, _)
\* [p for p in self.patterns if p.metric_name == metric_name]
SelectPatterns(patterns, metric_name) ==
    IF patterns = <<>> THEN <<>>
    ELSE IF Head(patterns).metric_name = metric_name
         THEN <<Head(patterns)>> \o SelectPatterns(Tail(patterns), metric_name)
         ELSE SelectPatterns(Tail(patterns), metric_name)

\* The Insight _generate_combined_insights builds for an anomaly and the
\* patterns of its metric: (anomaly confidence + mean pattern confidence) / 2.
CombinedInsight(anomaly, related_patterns) ==
    LET n == Len(related_patterns)
        combined_confidence ==
            [num |-> calculate_confidence_from_anomaly(anomaly) * n
                       + SumSeq([i \in 1..n |-> related_patterns[i].confidence_pct]),
             den |-> 2 * n]
    IN  [plant_id |-> anomaly.plant_id,
         insight_type |-> "performance_trend",
         confidence |-> IF FracGe(combined_confidence, 100) THEN Whole(100)
                        ELSE combined_confidence,
         urgency |-> map_score_to_urgency(combined_confidence),
         linked_patterns |-> [i \in 1..n |-> related_patterns[i].pattern_id],
         linked_anomalies |-> <<anomaly.anomaly_id>>]

RECURSIVE CombinedFrom(_, _)
CombinedFrom(self_anomalies, patterns) ==
    IF self_anomalies = <<>> THEN <<>>
    ELSE LET anomaly == Head(self_anomalies)
             related_patterns == SelectPatterns(patterns, anomaly.metric_name)
         IN  (IF related_patterns = <<>> THEN <<>>
              ELSE <<CombinedInsight(anomaly, related_patterns)>>)
             \o CombinedFrom(Tail(self_anomalies), patterns)

\* A combined step that emits one insight for every anomaly and every pattern
\* of its metric.
GenerateCombinedPerPair(self) ==
    LET RECURSIVE PerPattern(_, _)
        PerPattern(anomaly, related_patterns) ==
            IF related_patterns = <<>> THEN <<>>
            ELSE <<CombinedInsight(anomaly, <<Head(related_patterns)>>)>>
                 \o PerPattern(anomaly, Tail(related_patterns))
        RECURSIVE PerAnomaly(_)
        PerAnomaly(self_anomalies) ==
            IF self_anomalies = <<>> THEN <<>>
            ELSE PerPattern(Head(self_anomalies),
                            SelectPatterns(self.patterns, Head(self_anomalies).metric_name))
                 \o PerAnomaly(Tail(self_anomalies))
    IN  PerAnomaly(self.anomalies)

\* _generate_combined_insights
generate_combined_insights(self) == CombinedFrom(self.anomalies, self.patterns)

\* generate_insights: anomaly insights, pattern insights, combined insights;
\* nothing catches what _generate_pattern_insights raises.
generate_insights(self) ==
    LET from_patterns == generate_pattern_insights(self)
    IN  IF from_patterns.raised THEN [raised |-> TRUE, insights |-> <<>>]
        ELSE [raised |-> FALSE,
              insights |-> generate_anomaly_insights(self)
                             \o from_patterns.insights
                             \o generate_combined_insights(self)]

(***************************************************************************)
(* SpecInsights: InsightsEngine(readings, anomalies, patterns)             *)
(*               .generate_insights()                                      *)
(***************************************************************************)
\* Anomalies of two plants: those of power_output_kwh found by the z-score
\* test, those of temperature_c by the IQR test.
InsAnomalies ==
    {[anomaly_id |-> IF plant = "P1" THEN "ANO_1" ELSE "ANO_2",
      plant_id |-> plant, metric_name |-> m,
      severity |-> "high", deviation_pct |-> -30,
      z_score |-> IF m = "power_output_kwh" THEN Some(4) ELSE None] :
        plant \in {"P1", "P2"}, m \in {"power_output_kwh", "temperature_c"}}

\* Valid Patterns: a degradation pattern has the amplitude PatternDetector
\* gives it (None) or a number.
\* The plant a pattern id of the model belongs to: two patterns of P1, one
\* of P2.
PatternPlant(pattern_id) == IF pattern_id = "PAT_3" THEN "P2" ELSE "P1"

InsPatterns ==
    {[pattern_id |-> id, plant_id |-> PatternPlant(id), pattern_type |-> ta[1],
      metric_name |-> m,
      frequency |-> IF ta[1] = "weekly_cycle" THEN "weekly" ELSE "annual",
      amplitude |-> ta[2], significance_score |-> 50, confidence_pct |-> 75,
      occurrence_count |-> 2] :
        id \in {"PAT_1", "PAT_2", "PAT_3"},
        ta \in {<<"seasonal", Some(40)>>, <<"weekly_cycle", Some(12)>>,
                <<"degradation", None>>, <<"degradation", Some(3)>>},
        m \in {"power_output_kwh", "temperature_c"}}

InitInsights ==
    /\ pc = "call"
    /\ ins_in \in [daily_readings : {<<>>},
                    anomalies : SeqsUpTo(InsAnomalies, MaxInsLen),
                    patterns : SeqsUpTo(InsPatterns, MaxInsLen)]
    /\ ins_out = Idle
    /\ args = Idle /\ result = Idle /\ plant_idx = 0
    /\ det_in = Idle /\ det_i = 0 /\ anomalies = <<>>
    /\ val_in = Idle /\ val_out = Idle
    /\ sev_in = Idle /\ sev_out = Idle
    /\ IdleBaseline /\ IdlePattern

GenerateInsights ==
    /\ pc = "call"
    /\ ins_out' = generate_insights(ins_in)
    /\ pc' = "done"
    /\ UNCHANGED <<ins_in, pipeVars, detVars, valVars, sevVars, baseVars, patVars>>

NextInsights == GenerateInsights

SpecInsights == InitInsights /\ [][NextInsights]_vars

(***************************************************************************)
(* SpecSeverity: one call of classify_severity                             *)
(***************************************************************************)
InitSeverity ==
    /\ pc = "call"
    /\ sev_in \in {[num |-> n, den |-> 100] : n \in (-DevMax)..DevMax}
    /\ sev_out = Idle
    /\ args = Idle /\ result = Idle /\ plant_idx = 0
    /\ det_in = Idle /\ det_i = 0 /\ anomalies = <<>>
    /\ val_in = Idle /\ val_out = Idle
    /\ IdleBaseline /\ IdlePattern /\ IdleInsights

ClassifySeverity ==
    /\ pc = "call"
    /\ sev_out' = classify_severity(sev_in)
    /\ pc' = "done"
    /\ UNCHANGED <<sev_in, pipeVars, detVars, valVars,
                   baseVars, patVars, insVars>>

NextSeverity == ClassifySeverity

SpecSeverity == InitSeverity /\ [][NextSeverity]_vars

(***************************************************************************)
(* SpecDetector: AnomalyDetector.detect, one loop iteration per step       *)
(***************************************************************************)
\* Baselines as a caller may hand them to detect (any Baseline object, the
\* way the unit tests build one), in units of 1/scale.
DetBaselines ==
    {[plant_id |-> "P1", period_name |-> "Q1_2025", metric_name |-> m,
      scale |-> 1, mean |-> mu, std_dev_sq |-> v,
      q1 |-> q[1], q2 |-> 20, q3 |-> q[2], iqr |-> q[2] - q[1],
      min_val |-> 5, max_val |-> 45, samples_count |-> 13, date_range |-> <<1, 13>>] :
        m \in {"power_output_kwh", "temperature_c", "bogus"},
        mu \in {0, 20, 24}, v \in {0, 4, 100}, q \in {<<18, 22>>, <<20, 20>>}}

DetReadings ==
    {DailyReading("P1", Date(d, TRUE), w, 18, 20, 800, "active", 500) :
        d \in {1, 2}, w \in {5, 20, 25, 45}}

DetDetectors ==
    {AnomalyDetector(t, m) : t \in {ZSCORE_THRESHOLD, [num |-> 3, den |-> 1]},
                             m \in {IQR_MULTIPLIER, [num |-> 1, den |-> 2]}}

InitDetector ==
    /\ pc = "detect"
    /\ det_in \in [self : DetDetectors,
                   readings : SeqsUpTo(DetReadings, MaxDetLen),
                   baseline : DetBaselines]
    /\ det_i = 0
    /\ anomalies = <<>>
    /\ args = Idle /\ result = Idle /\ plant_idx = 0
    /\ val_in = Idle /\ val_out = Idle
    /\ sev_in = Idle /\ sev_out = Idle
    /\ IdleBaseline /\ IdlePattern /\ IdleInsights

\* One iteration of "for i, reading in enumerate(readings)".
DetectStep ==
    /\ pc = "detect"
    /\ det_i < Len(det_in.readings)
    /\ anomalies' = anomalies
                    \o DetectOne(det_in.self, det_in.readings, det_in.baseline, det_i + 1)
    /\ det_i' = det_i + 1
    /\ UNCHANGED <<pc, det_in, pipeVars, valVars, sevVars,
                   baseVars, patVars, insVars>>

\* "return anomalies"
DetectReturn ==
    /\ pc = "detect"
    /\ det_i = Len(det_in.readings)
    /\ pc' = "done"
    /\ UNCHANGED <<detVars, pipeVars, valVars, sevVars,
                   baseVars, patVars, insVars>>

NextDetector == DetectStep \/ DetectReturn

SpecDetector == InitDetector /\ [][NextDetector]_vars

(***************************************************************************)
(* SpecSensitivity: one call of detect_zscore or detect_iqr                *)
(***************************************************************************)
\* The optional threshold / multiplier argument: omitted, or 0, 1/2, ..., 3.
SensArguments == {None} \cup {Some([num |-> n, den |-> 2]) : n \in 0..6}

SensBaselines == {b \in DetBaselines : b.metric_name # "temperature_c"}

SensDetectors ==
    {AnomalyDetector(ZSCORE_THRESHOLD, IQR_MULTIPLIER),
     AnomalyDetector([num |-> 3, den |-> 1], [num |-> 1, den |-> 2])}

InitSensitivity ==
    /\ pc = "call"
    /\ det_in \in [self : SensDetectors,
                   readings : SeqsUpTo(DetReadings, MaxDetLen),
                   baseline : SensBaselines,
                   argument : {None}]
    /\ det_i = 0
    /\ anomalies = <<>>
    /\ args = Idle /\ result = Idle /\ plant_idx = 0
    /\ val_in = Idle /\ val_out = Idle
    /\ sev_in = Idle /\ sev_out = Idle
    /\ IdleBaseline /\ IdlePattern /\ IdleInsights

\* detect_zscore(readings, baseline) or detect_zscore(readings, baseline, threshold)
DetectZscore ==
    /\ pc = "call"
    /\ \E threshold \in SensArguments :
          /\ det_in' = [det_in EXCEPT !.argument = threshold]
          /\ anomalies' = detect_zscore(det_in.self, det_in.readings,
                                        det_in.baseline, threshold)
    /\ pc' = "zscore"
    /\ UNCHANGED <<det_i, pipeVars, valVars, sevVars, baseVars, patVars, insVars>>

\* detect_iqr(readings, baseline) or detect_iqr(readings, baseline, multiplier)
DetectIqr ==
    /\ pc = "call"
    /\ \E multiplier \in SensArguments :
          /\ det_in' = [det_in EXCEPT !.argument = multiplier]
          /\ anomalies' = detect_iqr(det_in.self, det_in.readings,
                                     det_in.baseline, multiplier)
    /\ pc' = "iqr"
    /\ UNCHANGED <<det_i, pipeVars, valVars, sevVars, baseVars, patVars, insVars>>

NextSensitivity == DetectZscore \/ DetectIqr

SpecSensitivity == InitSensitivity /\ [][NextSensitivity]_vars

(***************************************************************************)
(* Claims about AnomalyDetector (SpecDetector, SpecSeverity)               *)
(***************************************************************************)
\* The value detect reads off reading k, for a metric it knows.
DetValue(k) == MetricOf(det_in.readings[k], det_in.baseline.metric_name)

\* |z| > zscore_threshold for reading k, with z = (value - mean) / std_dev
\* and z = 0 when std_dev = 0.
DetZFires(k) ==
    LET b == det_in.baseline
        t == det_in.self.zscore_threshold
        diff == Abs(DetValue(k) * b.scale - b.mean)
    IN  /\ b.std_dev_sq > 0
        /\ diff * diff * t.den * t.den > t.num * t.num * b.std_dev_sq

\* Reading k lies outside [q1 - m * iqr, q3 + m * iqr].
DetIqrFires(k) ==
    LET b == det_in.baseline
        m == det_in.self.iqr_multiplier
        v == DetValue(k) * b.scale * m.den
    IN  \/ v < b.q1 * m.den - m.num * b.iqr
        \/ v > b.q3 * m.den + m.num * b.iqr

\* The readings, among the first det_i, that one of the two tests flags.
DetFlagged ==
    IF det_in.baseline.metric_name \in valid_metrics
    THEN {k \in 1..det_i : DetZFires(k) \/ DetIqrFires(k)}
    ELSE {}

\* The j-th smallest element of a set of integers.
Nth(S, j) == CHOOSE i \in S : Cardinality({x \in S : x <= i}) = j

\* C7: detect yields at most one anomaly per reading, in input order: the
\* j-th anomaly belongs to the j-th flagged reading, it is a "zscore"
\* anomaly when |z| > zscore_threshold (whether or not the reading also lies
\* outside the IQR bounds) and an "iqr" anomaly only when the z-score test
\* did not fire.
C7_OneAnomalyPerReading ==
    pc \in {"detect", "done"} =>
        /\ Len(anomalies) = Cardinality(DetFlagged)
        /\ Len(anomalies) <= det_i
        /\ \A j \in 1..Len(anomalies) :
              LET k == Nth(DetFlagged, j)
              IN  /\ anomalies[j].date = det_in.readings[k].date
                  /\ anomalies[j].actual_value = DetValue(k)
                  /\ anomalies[j].detected_by = IF DetZFires(k) THEN "zscore" ELSE "iqr"

\* detect has returned for two readings: the first fires both tests and is
\* reported once, as "zscore"; the second fires the IQR test alone.
C7_Witness ==
    /\ pc = "done"
    /\ Len(det_in.readings) = 2
    /\ det_in.baseline.metric_name \in valid_metrics
    /\ DetZFires(1) /\ DetIqrFires(1)
    /\ ~DetZFires(2) /\ DetIqrFires(2)
    /\ Len(anomalies) = 2
    /\ anomalies[1].detected_by = "zscore"
    /\ anomalies[2].detected_by = "iqr"

\* C8: every anomaly the detector creates has exactly one of z_score and
\* iqr_bounds populated (z_score for "zscore", iqr_bounds for "iqr"),
\* expected_value equal to the baseline mean, and status "open".
C8_AnomalyFields ==
    pc \in {"detect", "done"} =>
        \A j \in 1..Len(anomalies) :
            LET a == anomalies[j]
            IN  /\ a.status = "open"
                /\ a.expected_value.num = det_in.baseline.mean
                /\ a.expected_value.den = det_in.baseline.scale
                /\ \/ a.detected_by = "zscore" /\ a.z_score # None /\ a.iqr_bounds = None
                   \/ a.detected_by = "iqr" /\ a.z_score = None /\ a.iqr_bounds # None

\* detect has returned an anomaly of each kind against a baseline whose mean
\* is not zero.
C8_Witness ==
    /\ pc = "done"
    /\ det_in.baseline.mean # 0
    /\ \E i, j \in 1..Len(anomalies) :
          /\ anomalies[i].detected_by = "zscore" /\ anomalies[i].z_score # None
          /\ anomalies[j].detected_by = "iqr" /\ anomalies[j].iqr_bounds # None

\* Thresholds detect's result is compared under: 0, 1/2, 1, ..., 4.
DetThresholds == {[num |-> n, den |-> 2] : n \in 0..8}

\* a <= b for fractions with positive denominators.
FracLe(a, b) == a.num * b.den <= b.num * a.den

\* What detect returns for the readings, baseline and iqr_multiplier of the
\* call in det_in under z-score threshold t; under the call's own threshold
\* that is the list the call returned.
DetectUnder(t) ==
    IF t = det_in.self.zscore_threshold /\ pc = "done" THEN anomalies
    ELSE detect(AnomalyDetector(t, det_in.self.iqr_multiplier),
                det_in.readings, det_in.baseline)

\* The anomaly, if any, detect appends for reading k under threshold t.
DetectOneUnder(t, k) ==
    DetectOne(AnomalyDetector(t, det_in.self.iqr_multiplier),
              det_in.readings, det_in.baseline, k)

\* The positions of the readings detect flags under threshold t.
FlaggedUnder(t) == {k \in 1..Len(det_in.readings) : DetectOneUnder(t, k) # <<>>}

\* Raising the threshold from t1 to t2 flags no new reading, and a reading
\* flagged under both keeps its anomaly except for the detection method,
\* which may go from "zscore" to "iqr".
NoMoreFlagged(t1, t2) ==
    /\ FlaggedUnder(t2) \subseteq FlaggedUnder(t1)
    /\ Len(DetectUnder(t2)) <= Len(DetectUnder(t1))
    /\ Len(DetectUnder(t1)) = Cardinality(FlaggedUnder(t1))
    /\ Len(DetectUnder(t2)) = Cardinality(FlaggedUnder(t2))
    /\ \A k \in FlaggedUnder(t2) :
          LET a1 == DetectOneUnder(t1, k)[1]
              a2 == DetectOneUnder(t2, k)[1]
          IN  /\ a1.date = a2.date /\ a1.actual_value = a2.actual_value
              /\ a1.deviation_pct = a2.deviation_pct /\ a1.severity = a2.severity
              /\ \/ a1.detected_by = a2.detected_by
                 \/ a1.detected_by = "zscore" /\ a2.detected_by = "iqr"

\* C25: raising the z-score threshold never increases what detect flags:
\* for the same readings, baseline and iqr_multiplier and thresholds
\* t1 <= t2, every reading flagged under t2 is flagged under t1, the anomaly
\* count under t2 is at most the count under t1, and only detected_by may
\* change, from zscore to iqr.
C25_ThresholdMonotone ==
    pc = "done" =>
        \A t \in DetThresholds :
            /\ FracLe(t, det_in.self.zscore_threshold)
                   => NoMoreFlagged(t, det_in.self.zscore_threshold)
            /\ FracLe(det_in.self.zscore_threshold, t)
                   => NoMoreFlagged(det_in.self.zscore_threshold, t)

\* detect has returned one "iqr" anomaly for two readings of which a lower
\* threshold flags both by z-score: the first reading is no longer flagged,
\* the second is flagged by the IQR test instead.
C25_Witness ==
    /\ pc = "done"
    /\ Len(det_in.readings) = 2
    /\ Len(anomalies) = 1
    /\ anomalies[1].detected_by = "iqr"
    /\ anomalies[1].date = det_in.readings[2].date
    /\ \E t \in DetThresholds :
          /\ FracLe(t, det_in.self.zscore_threshold)
          /\ Len(DetectUnder(t)) = 2
          /\ DetectUnder(t)[1].detected_by = "zscore"
          /\ DetectUnder(t)[2].detected_by = "zscore"

\* |deviation_pct| of an anomaly is below n percent.
DeviationBelow(a, n) == Abs(a.deviation_pct.num) < n * a.deviation_pct.den

\* C26: the sub-5% branch of classify_severity is unreachable from
\* detection: every anomaly emitted by detect, for any readings and any
\* baseline, has |deviation_pct| >= 5.
C26_AtLeastFivePercent ==
    pc \in {"detect", "done"} =>
        \A j \in 1..Len(anomalies) : ~DeviationBelow(anomalies[j], 5)

\* C26, as the code has it: detect flags by the baseline's spread, not by
\* the percentage deviation, so an emitted anomaly may deviate by less than
\* 5% (by 0% when the baseline mean is 0); its severity is the tier of its
\* |deviation_pct|, which is "low" for everything below 10, below 5 included.
C26_SeverityOfEmitted ==
    pc \in {"detect", "done"} =>
        \A j \in 1..Len(anomalies) :
            LET a == anomalies[j]
            IN  /\ a.deviation_pct = DeviationPct(a.actual_value, det_in.baseline)
                /\ a.severity = IF ~DeviationBelow(a, 50) THEN "critical"
                                ELSE IF ~DeviationBelow(a, 20) THEN "high"
                                ELSE IF ~DeviationBelow(a, 10) THEN "medium"
                                ELSE "low"

\* detect has returned an anomaly that deviates from a non-zero baseline
\* mean by less than 5% and is not zero, classified "low".
C26_Witness ==
    /\ pc = "done"
    /\ det_in.baseline.mean # 0
    /\ \E j \in 1..Len(anomalies) :
          /\ DeviationBelow(anomalies[j], 5)
          /\ anomalies[j].deviation_pct.num # 0
          /\ anomalies[j].severity = "low"

\* The sensitivity a call is to use: the argument when one was supplied, the
\* instance default when it was omitted.
Supplied(default) ==
    IF det_in.argument = None THEN default ELSE CHOOSE x \in det_in.argument : TRUE

\* The readings with |z| > t, z = (value - mean) / std_dev and 0 for std_dev = 0.
ZAbove(t) ==
    LET b == det_in.baseline
    IN  IF b.metric_name \in valid_metrics
        THEN {k \in 1..Len(det_in.readings) :
                LET diff == Abs(DetValue(k) * b.scale - b.mean)
                IN  /\ b.std_dev_sq > 0
                    /\ diff * diff * t.den * t.den > t.num * t.num * b.std_dev_sq}
        ELSE {}

\* The readings outside [q1 - m * iqr, q3 + m * iqr].
IqrOutside(m) ==
    LET b == det_in.baseline
    IN  IF b.metric_name \in valid_metrics
        THEN {k \in 1..Len(det_in.readings) :
                \/ DetValue(k) * b.scale * m.den < b.q1 * m.den - m.num * b.iqr
                \/ DetValue(k) * b.scale * m.den > b.q3 * m.den + m.num * b.iqr}
        ELSE {}

\* The returned anomalies are those of the readings in S, in input order.
AnomaliesAre(S, method) ==
    /\ Len(anomalies) = Cardinality(S)
    /\ \A j \in 1..Len(anomalies) :
          /\ anomalies[j].date = det_in.readings[Nth(S, j)].date
          /\ anomalies[j].actual_value = DetValue(Nth(S, j))
          /\ anomalies[j].detected_by = method

\* C28: an explicitly supplied sensitivity argument is always honoured:
\* detect_zscore(readings, baseline, threshold=t) flags exactly the readings
\* with |z| > t for every t >= 0, t = 0 included, and detect_iqr(readings,
\* baseline, multiplier=m) uses the bounds [q1 - m * iqr, q3 + m * iqr] for
\* every m >= 0, m = 0 included; the instance defaults apply only when the
\* argument is omitted.
C28_ArgumentHonoured ==
    /\ pc = "zscore" => AnomaliesAre(ZAbove(Supplied(det_in.self.zscore_threshold)), "zscore")
    /\ pc = "iqr" =>
          LET m == Supplied(det_in.self.iqr_multiplier)
              b == det_in.baseline
          IN  /\ AnomaliesAre(IqrOutside(m), "iqr")
              /\ \A j \in 1..Len(anomalies) :
                    LET bounds == CHOOSE x \in anomalies[j].iqr_bounds : TRUE
                    IN  /\ bounds.lower.num * m.den
                             = (b.q1 * m.den - m.num * b.iqr) * bounds.lower.den
                        /\ bounds.upper.num * m.den
                             = (b.q3 * m.den + m.num * b.iqr) * bounds.upper.den

ValFirst ==
    {i \in 1..Len(val_in) :
        \A j \in 1..(i - 1) : ReadingKey(val_in[j]) # ReadingKey(val_in[i])}

\* C10: remove_duplicates returns the subsequence of its input made of the
\* first occurrence of each (plant_id, date) key: no two returned readings
\* share a key, every key of the input appears, the input order is kept and
\* the result is never longer than the input.
C10_FirstOccurrences ==
    (pc = "done" /\ val_out.op = "remove_duplicates") =>
        LET out == val_out.value
        IN  /\ Len(out) = Cardinality(ValFirst)
            /\ \A k \in 1..Len(out) : out[k] = val_in[Nth(ValFirst, k)]
            /\ \A a, b \in 1..Len(out) :
                  a # b => ReadingKey(out[a]) # ReadingKey(out[b])
            /\ {ReadingKey(out[k]) : k \in 1..Len(out)}
                 = {ReadingKey(val_in[i]) : i \in 1..Len(val_in)}
            /\ Len(out) <= Len(val_in)

\* remove_duplicates has dropped a later reading that shares its key with an
\* earlier, different reading, and has kept at least two readings.
C10_Witness ==
    /\ pc = "done"
    /\ val_out.op = "remove_duplicates"
    /\ Len(val_out.value) >= 2
    /\ Len(val_out.value) < Len(val_in)
    /\ \E i, j \in 1..Len(val_in) :
          /\ i < j
          /\ ReadingKey(val_in[i]) = ReadingKey(val_in[j])
          /\ val_in[i] # val_in[j]

\* C11: remove_duplicates is idempotent: applied to its own result for a list
\* L it returns that result, remove_duplicates(L), again.
C11_Idempotent ==
    (pc = "again" /\ val_out.op = "remove_duplicates_again") =>
        val_out.value = remove_duplicates(val_in)

\* The second call has returned for an input that holds three readings with
\* one key, which the first call cut down to one.
C11_Witness ==
    /\ pc = "again"
    /\ val_out.op = "remove_duplicates_again"
    /\ \E i, j, k \in 1..Len(val_in) :
          /\ i < j /\ j < k
          /\ ReadingKey(val_in[i]) = ReadingKey(val_in[j])
          /\ ReadingKey(val_in[j]) = ReadingKey(val_in[k])
    /\ Len(val_out.value) < Len(val_in)
    /\ Len(val_out.value) >= 1

\* The business rules a reading violates, each stated on its own.
RulesViolated(r) ==
    {rule \in {"plant_id", "date_format", "date", "power_output_kwh", "efficiency_pct",
               "temperature_c", "irradiance_w_m2", "inverter_status",
               "grid_frequency_hz"} :
        CASE rule = "plant_id" -> r.plant_id \in {"", " "}
          [] rule = "date_format" -> r.date.day < 1
          [] rule = "date" -> r.date.day >= 1 /\ r.date.day > Today
          [] rule = "power_output_kwh" -> r.power_output_kwh < 0
          [] rule = "efficiency_pct" -> r.efficiency_pct \notin 0..100
          [] rule = "temperature_c" -> r.temperature_c \notin (-50)..80
          [] rule = "irradiance_w_m2" -> r.irradiance_w_m2 \notin 0..1500
          [] rule = "inverter_status" ->
                 r.inverter_status \notin {"active", "Active", "inactive", "fault",
                                           "standby", "maintenance"}
          [] rule = "grid_frequency_hz" -> r.grid_frequency_hz \notin 495..505}

\* C12: validate_batch never raises and returns one result per reading, in
\* input order; result i is valid exactly when validate accepts reading i on
\* its own, so the number of passing results is the number of readings that
\* pass individually, whatever else is in the batch.
C12_BatchOneResultPerReading ==
    (pc = "done" /\ val_out.op = "validate_batch") =>
        LET out == val_out.value
        IN  /\ ~out.raised
            /\ Len(out.results) = Len(val_in)
            /\ \A i \in 1..Len(val_in) :
                  out.results[i].is_valid <=> (RulesViolated(val_in[i]) = {})
            /\ Cardinality({i \in 1..Len(out.results) : out.results[i].is_valid})
                 = Cardinality({i \in 1..Len(val_in) :
                                   ValidateOutcome(val_in[i]).raises = ""})

\* validate_batch has returned for a batch of three whose middle reading
\* alone passes.
C12_Witness ==
    /\ pc = "done"
    /\ val_out.op = "validate_batch"
    /\ Len(val_in) = 3
    /\ ~val_out.value.results[1].is_valid
    /\ val_out.value.results[2].is_valid
    /\ ~val_out.value.results[3].is_valid

\* C13: validate returns True exactly when the reading violates no business
\* rule; otherwise it raises one ValidationError whose message has exactly
\* one entry for every violated rule, not only the first.
C13_AllViolationsReported ==
    (pc = "done" /\ val_out.op = "validate") =>
        LET out == val_out.value
            violated == RulesViolated(val_in[1])
        IN  /\ (out.raises = "" /\ out.value) <=> (violated = {})
            /\ violated # {} =>
                  /\ out.raises = "ValidationError"
                  /\ Range(out.message) = violated
                  /\ Len(out.message) = Cardinality(violated)

\* validate has raised for a reading that breaks all eight rules at once.
C13_Witness ==
    /\ pc = "done"
    /\ val_out.op = "validate"
    /\ val_out.value.raises = "ValidationError"
    /\ Len(val_out.value.message) = 8
    /\ Cardinality(RulesViolated(val_in[1])) = 8

\* The calendar days of the readings handed to fill_date_gaps.
FillDays == {strptime(val_in.readings[i].date) : i \in 1..Len(val_in.readings)}

\* C14: for two or more readings and either method, fill_date_gaps returns
\* exactly one reading for every calendar day from the earliest to the
\* latest input date, in ascending date order, no day of the span missing.
C14_EveryDayOnce ==
    (pc = "done" /\ val_out.op = "fill_date_gaps" /\ Len(val_in.readings) >= 2) =>
        LET out == val_out.value
            lo == MinOf(FillDays)
            hi == MaxOf(FillDays)
        IN  /\ Len(out) = hi - lo + 1
            /\ \A k \in 1..Len(out) : strptime(out[k].date) = lo + k - 1

\* C23: fill_date_gaps never returns fewer readings than it was given,
\* whatever the length of the list, its dates and the fill method.
C23_NeverFewer ==
    (pc = "done" /\ val_out.op = "fill_date_gaps") =>
        Len(val_out.value) >= Len(val_in.readings)

\* C15: a reading that fill_date_gaps creates by interpolation has every
\* numeric field, grid_frequency_hz included, equal to the linear
\* interpolation by day offset between the nearest existing readings before
\* and after its day, and takes inverter_status from the earlier of the two.
\* Stated for inputs whose dates are all spelled zero-padded, where the walk
\* over the days is not in question.
C15_InterpolatedFields ==
    (/\ pc = "done" /\ val_out.op = "fill_date_gaps" /\ val_in.method = "interpolate"
     /\ \A i \in 1..Len(val_in.readings) : val_in.readings[i].date.pad) =>
        \A k \in 1..Len(val_out.value) :
            LET r == val_out.value[k]
                d == strptime(r.date)
                in == val_in.readings
            IN  (\A i \in 1..Len(in) : in[i].date # r.date) =>
                    \E i, j \in 1..Len(in) :
                        LET b == in[i]
                            a == in[j]
                            db == strptime(b.date)
                            da == strptime(a.date)
                        IN  /\ db < d /\ d < da
                            /\ \A x \in FillDays : ~(db < x /\ x < d) /\ ~(d < x /\ x < da)
                            /\ r.power_output_kwh
                                 = Lerp(b.power_output_kwh, a.power_output_kwh, d - db, da - db)
                            /\ r.efficiency_pct
                                 = Lerp(b.efficiency_pct, a.efficiency_pct, d - db, da - db)
                            /\ r.temperature_c
                                 = Lerp(b.temperature_c, a.temperature_c, d - db, da - db)
                            /\ r.irradiance_w_m2
                                 = Lerp(b.irradiance_w_m2, a.irradiance_w_m2, d - db, da - db)
                            /\ r.grid_frequency_hz
                                 = Lerp(b.grid_frequency_hz, a.grid_frequency_hz, d - db, da - db)
                            /\ r.inverter_status = b.inverter_status

(***************************************************************************)
(* Claims about BaselineCalculator (SpecBaseline)                          *)
(***************************************************************************)
\* a <= b between two statistics: false when either is NaN.
StatLe(a, b) == a # NaN /\ b # NaN /\ a <= b

\* C16: calculate fails for every input of fewer than 13 readings, and for
\* 13 or more readings and a known metric it returns a Baseline with
\* min_val <= q1 <= q2 <= q3 <= max_val, iqr = q3 - q1 >= 0, std_dev >= 0
\* and samples_count equal to the number of readings.
C16_BaselineWellFormed ==
    (pc = "done" /\ base_out.op = "calculate") =>
        LET out == base_out.value
            b == out.value
            n == Len(base_in.readings)
        IN  /\ n < 13 => out.raised
            /\ (n >= 13 /\ base_in.baseline.metric_name \in valid_metrics) =>
                  /\ ~out.raised
                  /\ StatLe(b.min_val, b.q1) /\ StatLe(b.q1, b.q2)
                  /\ StatLe(b.q2, b.q3) /\ StatLe(b.q3, b.max_val)
                  /\ b.iqr = b.q3 - b.q1 /\ StatLe(0, b.iqr)
                  /\ StatLe(0, b.std_dev_sq)
                  /\ b.samples_count = n

C17_WitnessTooFew ==
    /\ pc = "done"
    /\ base_out.op = "update_rolling"
    /\ base_in.baseline.samples_count = 90
    /\ Len(base_in.readings) = 12
    /\ base_out.value.raised

(***************************************************************************)
(* Claims about PatternDetector (SpecPattern)                              *)
(***************************************************************************)
\* The place of a pattern type in the order seasonal, weekly, degradation.
TypeRank(pattern_type) ==
    CASE pattern_type = "seasonal" -> 1
      [] pattern_type = "weekly_cycle" -> 2
      [] pattern_type = "degradation" -> 3

\* The patterns each detector returns when called on its own.
AloneSeasonal(readings) ==
    detect_seasonal("P1", readings, "power_output_kwh", 0, 0)
AloneWeekly(readings) ==
    detect_weekly_cycle("P1", readings, "power_output_kwh", 0, 0)
AloneDegradation(readings) ==
    detect_degradation("P1", readings, "power_output_kwh", 0, 0)

HasType(patterns, pattern_type) ==
    \E i \in 1..Len(patterns) : patterns[i].pattern_type = pattern_type

\* C18: on 30 or more readings detect never raises; a detector that fails
\* costs only its own patterns, so the result holds a pattern of a type
\* exactly when that type's detector returns one; and the patterns come in
\* the order seasonal, weekly, degradation.
C18_DetectIsolatesDetectors ==
    (pat_out # Idle /\ pat_out.op = "detect" /\ pat_in.readings.len >= 30) =>
        LET patterns == pat_out.patterns
            readings == pat_in.readings
        IN  /\ ~pat_out.raised
            /\ HasType(patterns, "seasonal") <=> AloneSeasonal(readings).patterns # <<>>
            /\ HasType(patterns, "weekly_cycle") <=> AloneWeekly(readings).patterns # <<>>
            /\ HasType(patterns, "degradation") <=> AloneDegradation(readings).patterns # <<>>
            /\ \A i, j \in 1..Len(patterns) :
                  i < j => TypeRank(patterns[i].pattern_type)
                             < TypeRank(patterns[j].pattern_type)

\* detect has returned the seasonal and the weekly pattern, in that order,
\* from readings on which detect_degradation raises.
C18_Witness ==
    /\ pat_out # Idle
    /\ pat_out.op = "detect"
    /\ pat_in.readings.len >= 30
    /\ AloneDegradation(pat_in.readings).raised
    /\ ~pat_out.raised
    /\ Len(pat_out.patterns) = 2
    /\ pat_out.patterns[1].pattern_type = "seasonal"
    /\ pat_out.patterns[2].pattern_type = "weekly_cycle"

\* detect has returned all three patterns.
C18_WitnessAllThree ==
    /\ pat_out # Idle
    /\ pat_out.op = "detect"
    /\ Len(pat_out.patterns) = 3

\* C19: the ids one PatternDetector has generated, over any sequence of
\* detect, detect_seasonal, detect_weekly_cycle and detect_degradation
\* calls, are pairwise distinct: the i-th id generated carries counter i,
\* whether or not its pattern was discarded, and pattern_counter is the
\* number of ids generated so far.
C19_PatternIdsDistinct ==
    /\ \A i, j \in 1..Len(pat_ids) : i # j => pat_ids[i].id # pat_ids[j].id
    /\ \A i \in 1..Len(pat_ids) : pat_ids[i].id.counter = i
    /\ pattern_counter = Len(pat_ids)

\* Three ids have been generated within one second, two of them of the same
\* type, and one of them for a pattern that was discarded.
C19_Witness ==
    /\ Len(pat_ids) >= 3
    /\ \A i \in 1..Len(pat_ids) : pat_ids[i].id.timestamp = pat_ids[1].id.timestamp
    /\ \E i, j \in 1..Len(pat_ids) : i # j /\ pat_ids[i].id.type = pat_ids[j].id.type
    /\ \E i \in 1..Len(pat_ids) : pat_ids[i].discarded

\* C24: every Pattern a PatternDetector call returns has
\* first_observed_date <= last_observed_date, in whatever order the readings
\* were supplied.
C24_PatternDatesOrdered ==
    pat_out # Idle =>
        \A i \in 1..Len(pat_out.patterns) :
            pat_out.patterns[i].first_observed_date
                <= pat_out.patterns[i].last_observed_date

\* The degradation patterns among patterns.
DegradationOnly(patterns) ==
    SelectSeq(patterns, LAMBDA pattern : pattern.pattern_type = "degradation")

\* C27: on 365 or more readings the degradation detector emits exactly one
\* degradation pattern when the annual slope of the values it fits is
\* negative and exceeds 2 percent of their mean, whatever the span and the
\* order of the readings, and none otherwise; every pattern it emits has
\* occurrence_count >= 2.
C27_DegradationEmitted ==
    (/\ pat_out # Idle
     /\ pat_out.op \in {"detect", "detect_degradation"}
     /\ pat_in.readings.len >= 365) =>
        LET value == pat_in.readings.power_output_kwh
            emitted == DegradationOnly(pat_out.patterns)
        IN  /\ ~pat_out.raised
            /\ Len(emitted) = IF value.annual_slope_pct < 0
                                   /\ Abs(value.annual_slope_pct) > 2
                               THEN 1 ELSE 0
            /\ \A i \in 1..Len(emitted) : emitted[i].occurrence_count >= 2

\* The patterns without their ids.
WithoutIds(patterns) ==
    [i \in 1..Len(patterns) |-> [patterns[i] EXCEPT !.pattern_id = Idle]]

\* The dates of two lists of readings are the same.
SameDates(r1, r2) ==
    /\ r1.len = r2.len /\ r1.months = r2.months /\ r1.weekdays = r2.weekdays
    /\ r1.first_day = r2.first_day /\ r1.span_days = r2.span_days

\* C30: detect analyses the metric it is given: every list of readings with
\* the same dates and the same values of metric_name yields the same
\* patterns but for their ids, and every pattern returned carries
\* metric_name.
C30_NamedMetricAnalysed ==
    (pat_out # Idle /\ pat_out.op = "detect") =>
        /\ \A i \in 1..Len(pat_out.patterns) :
              pat_out.patterns[i].metric_name = pat_in.metric_name
        /\ \A other \in PatternReadings :
              (/\ SameDates(other, pat_in.readings)
               /\ other[pat_in.metric_name] = pat_in.readings[pat_in.metric_name]) =>
                  WithoutIds(detect_patterns(pat_in.plant_id, other, pat_in.metric_name,
                                             0, 0).patterns)
                      = WithoutIds(pat_out.patterns)

(***************************************************************************)
(* Claims about InsightsEngine (SpecInsights)                              *)
(***************************************************************************)
\* The insights derived from one pattern alone: linked to a pattern and to
\* no anomaly.
RECURSIVE PatternDerived(_)
PatternDerived(insights) ==
    IF insights = <<>> THEN <<>>
    ELSE IF Head(insights).linked_anomalies = <<>> /\ Head(insights).linked_patterns # <<>>
         THEN <<Head(insights)>> \o PatternDerived(Tail(insights))
         ELSE PatternDerived(Tail(insights))

\* C20: for any anomalies and any list of valid patterns, a null amplitude
\* included, generate_insights completes and returns exactly one
\* pattern-derived insight per pattern, linked to that pattern's id, of type
\* performance_trend for a degradation pattern and pattern_explanation
\* otherwise; with no anomalies the result has as many insights as there are
\* patterns.
C20_OneInsightPerPattern ==
    pc = "done" =>
        LET derived == PatternDerived(ins_out.insights)
            patterns == ins_in.patterns
        IN  /\ ~ins_out.raised
            /\ Len(derived) = Len(patterns)
            /\ \A i \in 1..Len(patterns) :
                  /\ derived[i].linked_patterns = <<patterns[i].pattern_id>>
                  /\ derived[i].insight_type =
                        IF patterns[i].pattern_type = "degradation"
                        THEN "performance_trend" ELSE "pattern_explanation"
            /\ ins_in.anomalies = <<>> => Len(ins_out.insights) = Len(patterns)

\* The insights that link an anomaly to patterns.
RECURSIVE CombinedOnly(_)
CombinedOnly(insights) ==
    IF insights = <<>> THEN <<>>
    ELSE IF Head(insights).linked_anomalies # <<>> /\ Head(insights).linked_patterns # <<>>
         THEN <<Head(insights)>> \o CombinedOnly(Tail(insights))
         ELSE CombinedOnly(Tail(insights))

\* The (anomaly, pattern) positions whose metric names agree.
MatchingPairs(self) ==
    {<<i, j>> \in (1..Len(self.anomalies)) \X (1..Len(self.patterns)) :
        self.anomalies[i].metric_name = self.patterns[j].metric_name}

\* The positions of the anomalies that have a pattern of their metric.
MatchedAnomalies(self) == {pair[1] : pair \in MatchingPairs(self)}

C29_CombinedSinglePlant ==
    (pc = "done" /\ ins_out # Idle /\ ~ins_out.raised) =>
        LET combined == CombinedOnly(ins_out.insights)
        IN  \A k \in 1..Len(combined) :
              /\ \E i \in 1..Len(ins_in.anomalies) :
                    /\ combined[k].linked_anomalies = <<ins_in.anomalies[i].anomaly_id>>
                    /\ combined[k].plant_id = ins_in.anomalies[i].plant_id
              /\ \A n \in 1..Len(combined[k].linked_patterns) :
                    \A j \in 1..Len(ins_in.patterns) :
                        ins_in.patterns[j].pattern_id = combined[k].linked_patterns[n]
                            => ins_in.patterns[j].plant_id = combined[k].plant_id

(***************************************************************************)
(* Claims about DataPipeline.execute (Spec)                                *)
(***************************************************************************)
RunMetrics == EffectiveMetrics(args.metrics)

\* Both sources were read and neither is empty: execute reaches its loop.
RunLoaded ==
    /\ args.plants_source.readable /\ args.plants_source.plants # <<>>
    /\ args.readings_source.readable /\ DOMAIN args.readings_source.readings # {}

\* What the readings source holds for plant p.
SourceReadings(p) ==
    IF args.readings_source.readable /\ p \in DOMAIN args.readings_source.readings
    THEN args.readings_source.readings[p] ELSE <<>>

\* The readings of plant p that are left after step 2a.
Checked(p) ==
    IF args.validate THEN SelectSeq(SourceReadings(p), validate) ELSE SourceReadings(p)

\* Plant p's readings after cleaning: validation, de-duplication, gap filling.
Cleaned(p) ==
    LET deduped == remove_duplicates(Checked(p))
    IN  IF args.fill_gaps /\ Len(deduped) > 1
        THEN fill_date_gaps(deduped, "interpolate") ELSE deduped

\* A step of processing plant p other than the analysis of a metric raises.
PlantStepRaises(p) ==
    /\ args.fault.plant = p
    /\ SourceReadings(p) # <<>>
    /\ \/ args.fault.step = "validate_batch" /\ args.validate
       \/ args.fault.step = "remove_duplicates" /\ Checked(p) # <<>>
       \/ /\ args.fault.step = "fill_date_gaps" /\ Checked(p) # <<>>
          /\ args.fill_gaps /\ Len(remove_duplicates(Checked(p))) > 1

\* Computing the baseline or detecting the anomalies of (p, m) raises.
MetricRaises(p, m) ==
    /\ Len(Cleaned(p)) >= 13
    /\ \/ m \notin valid_metrics
       \/ args.fault.plant = p /\ args.fault.metric = m
          /\ args.fault.step \in {"calculate", "detect"}

\* What a result records for plant p.
PlantOutcome(res, p) ==
    LET analyzed == p \in DOMAIN res.baselines_by_plant
    IN  [analyzed |-> analyzed,
         baselines |-> IF analyzed THEN res.baselines_by_plant[p] ELSE EmptyDict,
         anomalies |-> IF p \in DOMAIN res.anomalies_by_plant
                       THEN res.anomalies_by_plant[p] ELSE <<>>,
         warnings |-> {w \in Range(res.warnings) : w.plant = p},
         errors |-> {e \in Range(res.errors) : e.plant = p}]

\* What execute records for plant p when it processes p alone.
AloneOutcome(p) ==
    LET loaded == load_readings(load_plants(NewResult, args.plants_source),
                                args.readings_source)
    IN  PlantOutcome(process_plant(p, loaded, RunMetrics, args.validate,
                                   args.fill_gaps, args.fault).result, p)

\* C1: execute never aborts the run because one plant failed: when a step
\* of processing one plant raises, the failure is recorded in the result and
\* every other plant of the registry is still processed, its baselines and
\* anomalies being those it gets when the failing plant is absent.
C1_PlantFailureIsolated ==
    (pc = "done" /\ RunLoaded) =>
        \A p \in Range(result.plants) :
            IF PlantStepRaises(p) \/ \E m \in Range(RunMetrics) : MetricRaises(p, m)
            THEN result.errors # <<>>
            ELSE PlantOutcome(result, p) = AloneOutcome(p)

\* What a result holds for plant p: its readings_by_plant entry, baselines
\* and anomalies, and the warnings and errors that name it, as sets.
PlantView(res, p) ==
    [readings |-> IF p \in DOMAIN res.readings_by_plant
                  THEN <<res.readings_by_plant[p]>> ELSE <<>>,
     outcome |-> PlantOutcome(res, p)]

\* The run with the plants of the registry in the opposite order.
ReorderedRun ==
    [args EXCEPT !.plants_source.plants =
        [i \in 1..Len(@) |-> @[Len(@) + 1 - i]]]

\* The runs in which the source holds other readings for plant q.
OtherReadingsRuns(q) ==
    {[args EXCEPT !.readings_source.readings =
         IF shape = "none"
         THEN [k \in DOMAIN @ \ {q} |-> @[k]]
         ELSE (q :> ShapeReadings(q, shape)) @@ @] : shape \in Shapes}

\* C22: what execute records for a plant depends only on that plant's own
\* readings and the requested metrics: with the plants processed in another
\* order, or with other readings for another plant, the plant's
\* readings_by_plant entry, baselines and anomalies are the same, and so
\* are the sets of warnings and errors about it.
C22_PlantIndependent ==
    (pc = "done" /\ args.plants_source.readable /\ args.readings_source.readable) =>
        \A p \in Range(args.plants_source.plants) :
            /\ PlantView(execute(ReorderedRun), p) = PlantView(result, p)
            /\ \A q \in Plants \ {p} : \A a \in OtherReadingsRuns(q) :
                  PlantView(execute(a), p) = PlantView(result, p)

\* execute computes what the steps of the run leave in result.
ExecuteIsTheRun == pc = "done" => result = execute(args)

\* The plants whose iteration of the loop has completed.
ProcessedPlants == {result.plants[i] : i \in 1..(plant_idx - 1)}

\* C2: an exception raised while computing the baseline or detecting the
\* anomalies of one (plant, metric) pair is recorded as an error naming the
\* pair, nothing is stored for the pair, every other requested metric of the
\* plant is analyzed, and the loop goes on to the next plant: it only ever
\* stops early at a plant one of whose other steps raised.
C2_MetricFailureIsolated ==
    (pc \in {"process", "done"} /\ plant_idx >= 1) =>
        /\ \A p \in ProcessedPlants, m \in Range(RunMetrics) :
              Len(Cleaned(p)) >= 13 =>
                  IF MetricRaises(p, m)
                  THEN /\ Msg("Error analyzing", p, m, 0) \in Range(result.errors)
                       /\ m \notin DOMAIN result.baselines_by_plant[p]
                       /\ \A a \in Range(result.anomalies_by_plant[p]) : a.metric_name # m
                  ELSE m \in DOMAIN result.baselines_by_plant[p]
        /\ (pc = "done" /\ plant_idx <= Len(result.plants))
              => PlantStepRaises(result.plants[plant_idx])

\* The analysis of (P1, power_output_kwh) raised; P1's temperature_c and both
\* metrics of the later plant P2 have their baselines.
C2_Witness ==
    /\ pc = "done"
    /\ result.plants = <<"P1", "P2">>
    /\ args.fault = [plant |-> "P1", step |-> "calculate", metric |-> "power_output_kwh"]
    /\ Msg("Error analyzing", "P1", "power_output_kwh", 0) \in Range(result.errors)
    /\ "P1" \in DOMAIN result.baselines_by_plant
    /\ DOMAIN result.baselines_by_plant["P1"] = {"temperature_c"}
    /\ "P2" \in DOMAIN result.baselines_by_plant
    /\ DOMAIN result.baselines_by_plant["P2"] = {"power_output_kwh", "temperature_c"}

\* C3: on every return path of execute, success is true exactly when the
\* errors list is empty.
C3_SuccessIffNoErrors ==
    pc = "done" => (result.success <=> result.errors = <<>>)

\* execute has returned success with warnings recorded and an anomaly found.
C3_Witness ==
    /\ pc = "done"
    /\ result.success
    /\ result.warnings # <<>>
    /\ \E p \in DOMAIN result.anomalies_by_plant : result.anomalies_by_plant[p] # <<>>

C5_UnreadableSource ==
    (pc = "done" /\ (~args.plants_source.readable \/ ~args.readings_source.readable)) =>
        /\ ~result.success
        /\ result.errors # <<>>
        /\ DOMAIN result.baselines_by_plant = {}
        /\ DOMAIN result.anomalies_by_plant = {}

\* execute has returned after the plants source could not be read while the
\* readings source held a full series for both plants.
C5_Witness ==
    /\ pc = "done"
    /\ ~args.plants_source.readable
    /\ args.readings_source.readable
    /\ \A p \in Plants : Len(SourceReadings(p)) >= 13
    /\ Msg("Error loading plants CSV", "", "", 0) \in Range(result.errors)
    /\ ~result.success

\* C6: with validate=True, once execute has returned (here: successfully),
\* no reading that fails validate remains in result.readings_by_plant for a
\* plant of the registry, and no such reading has produced an anomaly.
C6_NoInvalidReadingLeft ==
    (pc = "done" /\ args.validate /\ result.success) =>
        \A p \in Range(result.plants) :
            /\ p \in DOMAIN result.readings_by_plant =>
                  \A r \in Range(result.readings_by_plant[p]) : validate(r)
            /\ p \in DOMAIN result.anomalies_by_plant =>
                  \A a \in Range(result.anomalies_by_plant[p]) :
                      \E r \in Range(SourceReadings(p)) \cup Range(Cleaned(p)) :
                          validate(r) /\ r.date = a.date

=============================================================================
